---- MODULE Spec2Model ----
(***************************************************************************)
(* Event-sourced bank account (dmrolfs/rust-cqrs-bank).                    *)
(*                                                                         *)
(* The aggregate (src/src/model/bank_account.rs), its protocol, the        *)
(* business-rule services, the account view (src/src/queries/mod.rs) and   *)
(* the error mapping (src/src/errors.rs) are translated from the source.   *)
(* The event store, the view repository and the command pipeline           *)
(* (load, handle, commit, dispatch) belong to the cqrs-es / postgres-es    *)
(* collaborators and are modelled from the interface the specification     *)
(* gives for them (sections 4.5, 5 and 6).                                 *)
(*                                                                         *)
(* Money is modelled as a signed integer number of cents of one currency   *)
(* (USD): every amount, balance and ledger entry is in that currency.      *)
(***************************************************************************)
EXTENDS Integers, Sequences, FiniteSets, TLC

\* ------------------------------------------------------------------ bounds
MaxCmds     == 4        \* command executions started in one behaviour
MaxAmount   == 1        \* amounts range over -1..MaxAmount without 0

AccountIds == {1, 2}
Procs      == {1, 2}    \* command executions that may overlap in time
Amounts    == (-1..MaxAmount) \ {0}
CheckNrs   == {7, 8}
AtmIds     == {"abc_123"}
ServiceModes == {"HappyPath", "Failing"}

\* ------------------------------------------------------------ value objects
ZERO_MONEY == 0

\* pretty_snowflake's prettifier encodes the number of an id as a string
Pretty(num) == "ID-" \o ToString(num)

\* generate_id: the next id of the generator, with the generator's prettifier
GenerateId(num) == [label |-> "BankAccount", num |-> num, pretty |-> Pretty(num)]

\* mutant: the id is rebuilt with the number in place of its pretty string
IdOfAccountId_Unprettified(account_id) ==
    [label |-> "BankAccount", num |-> account_id, pretty |-> ToString(account_id)]

\* From<AccountId> for Id<BankAccount>
IdOfAccountId(account_id) ==
    [label |-> "BankAccount", num |-> account_id, pretty |-> Pretty(account_id)]

\* From<Id<BankAccount>> for AccountId
AccountIdOfId(id) == id.num

UserNameOf(account_id) == "user" \o ToString(account_id)
Address0 == "12 Seahawks Way"
Address1 == "123 Main St."
Email0   == "neo@example.com"
Email1   == "otis@example.com"

\* ----------------------------------------------------------------- protocol
OpenAccount(account_id) ==
    [type |-> "OpenAccount", account_id |-> account_id,
     user_name |-> UserNameOf(account_id),
     mailing_address |-> Address0, email |-> Email0]
DepositAmount(amount) == [type |-> "DepositAmount", amount |-> amount]
WithdrawCash(amount, atm_id) ==
    [type |-> "WithdrawCash", amount |-> amount, atm_id |-> atm_id]
DisburseCheck(check_nr, amount) ==
    [type |-> "DisburseCheck", check_nr |-> check_nr, amount |-> amount]
ChangeMailingAddress(new_address) ==
    [type |-> "ChangeMailingAddress", new_address |-> new_address]
ChangeEmail(new_email) == [type |-> "ChangeEmail", new_email |-> new_email]

\* BankAccountCommand, for the account the command is sent to
BankAccountCommand(account_id) ==
    {OpenAccount(account_id)}
    \cup {DepositAmount(a) : a \in Amounts}
    \cup {WithdrawCash(a, t) : a \in Amounts, t \in AtmIds}
    \cup {DisburseCheck(n, a) : n \in CheckNrs, a \in Amounts}
    \cup {ChangeMailingAddress(Address1), ChangeEmail(Email1)}

AccountOpened(account_id, user_name, mailing_address, email) ==
    [type |-> "AccountOpened", account_id |-> account_id, user_name |-> user_name,
     mailing_address |-> mailing_address, email |-> email]
BalanceDeposited(amount) == [type |-> "BalanceDeposited", amount |-> amount]
CashWithdrawal(amount) == [type |-> "CashWithdrawal", amount |-> amount]
CheckWithdrawal(check_nr, amount) ==
    [type |-> "CheckWithdrawal", check_nr |-> check_nr, amount |-> amount]
MailingAddressUpdated(new_address) ==
    [type |-> "MailingAddressUpdated", new_address |-> new_address]
EmailUpdated(new_email) == [type |-> "EmailUpdated", new_email |-> new_email]

\* the commands sent to an account while executions overlap: every command
\* to the first account, its checks all with the first check number; an
\* opening and a deposit to the others
CommandsFor(account_id) ==
    IF account_id = 1
    THEN {c \in BankAccountCommand(account_id) :
             c.type = "DisburseCheck" => c.check_nr = 7}
    ELSE {OpenAccount(account_id), DepositAmount(1)}

\* BankAccountEvent
BankAccountEvent ==
    {AccountOpened(i, UserNameOf(i), Address0, Email0) : i \in AccountIds}
    \cup {BalanceDeposited(a) : a \in Amounts}
    \cup {CashWithdrawal(a) : a \in Amounts}
    \cup {CheckWithdrawal(n, a) : n \in CheckNrs, a \in Amounts}
    \cup {MailingAddressUpdated(Address1), EmailUpdated(Email1)}

TransactionalEvents == {"BalanceDeposited", "CashWithdrawal", "CheckWithdrawal"}

\* mutant: the event type is the name of the variant as it is written
EventType_VariantName(event) == event.type

\* DomainEvent::event_type: strum's Display with serialize_all = "snake_case"
EventType(event) ==
    CASE event.type = "AccountOpened" -> "account_opened"
      [] event.type = "BalanceDeposited" -> "balance_deposited"
      [] event.type = "CashWithdrawal" -> "cash_withdrawal"
      [] event.type = "CheckWithdrawal" -> "check_withdrawal"
      [] event.type = "MailingAddressUpdated" -> "mailing_address_updated"
      [] event.type = "EmailUpdated" -> "email_updated"

VERSION == "1.0"

\* DomainEvent::event_version
EventVersion(event) == VERSION

AGGREGATE_TYPE == "account"

\* Aggregate::aggregate_type
AggregateType == AGGREGATE_TYPE

\* ------------------------------------------------------------------- errors
\* BankAccountError
InsufficientFunds(account_id, amount) ==
    [kind |-> "InsufficientFunds", account_id |-> account_id, amount |-> amount]
RejectedCommand(reason) == [kind |-> "RejectedCommand", reason |-> reason]
BankServiceErrorOf(err) == [kind |-> "BankServiceError", source |-> err]

\* BankServiceError
AtmError(reason) == [kind |-> "Atm", reason |-> reason]
InvalidCheck(account_id, check_nr) ==
    [kind |-> "InvalidCheck", account_id |-> account_id, check_nr |-> check_nr]

Ok(events, called) == [ok |-> TRUE, events |-> events, called |-> called]
Err(error, called) == [ok |-> FALSE, events |-> <<>>, error |-> error, called |-> called]

\* ----------------------------------------------------------------- services
\* BankAccountApi::validate_atm_withdrawal: the HappyPath services always
\* approve; "Failing" stands for an implementation of the trait that refuses.
ValidateAtmWithdrawal(services, atm_id, amount) ==
    IF services = "HappyPath"
    THEN [ok |-> TRUE]
    ELSE [ok |-> FALSE, error |-> AtmError("refused")]

\* BankAccountApi::validate_check
ValidateCheck(services, account_id, check_nr) ==
    IF services = "HappyPath"
    THEN [ok |-> TRUE]
    ELSE [ok |-> FALSE, error |-> InvalidCheck(account_id, check_nr)]

\* ---------------------------------------------------------------- aggregate
\* BankAccountState::default
Quiescent == [tag |-> "Quiescent"]

ActiveBankAccount(account_id, user_name, balance, mailing_address, email) ==
    [tag |-> "Active", id |-> IdOfAccountId(account_id), account_id |-> account_id,
     user_name |-> user_name, balance |-> balance,
     mailing_address |-> mailing_address, email |-> email]

ClosedBankAccount(account_id, user_name, mailing_address, email) ==
    [tag |-> "Closed", id |-> IdOfAccountId(account_id), account_id |-> account_id,
     user_name |-> user_name, mailing_address |-> mailing_address, email |-> email]

\* QuiescentBankAccount::handle
QuiescentHandle(command) ==
    IF command.type = "OpenAccount"
    THEN Ok(<<AccountOpened(command.account_id, command.user_name,
                            command.mailing_address, command.email)>>, FALSE)
    ELSE Err(RejectedCommand("Unopened account cannot process command"), FALSE)

\* mutant: the account is opened without the user name of the event
QuiescentApply_AnonymousUser(event) ==
    IF event.type = "AccountOpened"
    THEN [some |-> TRUE,
          state |-> ActiveBankAccount(event.account_id, "", 0,
                                      event.mailing_address, event.email)]
    ELSE [some |-> FALSE]

\* QuiescentBankAccount::apply: the new state, or None
QuiescentApply(event) ==
    IF event.type = "AccountOpened"
    THEN [some |-> TRUE,
          state |-> ActiveBankAccount(event.account_id, event.user_name, 0,
                                      event.mailing_address, event.email)]
    ELSE [some |-> FALSE]

\* mutant: the funds check lets every amount pass
CheckFundsAvailable_NoCheck(self, amount) ==
    [ok |-> TRUE, balance |-> self.balance - amount]

\* mutant: the funds check lets the balance fall to -1
CheckFundsAvailable_OffByOne(self, amount) ==
    LET balance == self.balance - amount
    IN  IF ZERO_MONEY <= balance + 1
        THEN [ok |-> TRUE, balance |-> balance]
        ELSE [ok |-> FALSE, error |-> InsufficientFunds(self.account_id, amount)]

\* mutant: the funds check wants something left in the account
CheckFundsAvailable_Strict(self, amount) ==
    LET balance == self.balance - amount
    IN  IF ZERO_MONEY < balance
        THEN [ok |-> TRUE, balance |-> balance]
        ELSE [ok |-> FALSE, error |-> InsufficientFunds(self.account_id, amount)]

\* ActiveBankAccount::check_funds_available
CheckFundsAvailable(self, amount) ==
    LET balance == self.balance - amount
    IN  IF ZERO_MONEY <= balance
        THEN [ok |-> TRUE, balance |-> balance]
        ELSE [ok |-> FALSE, error |-> InsufficientFunds(self.account_id, amount)]

\* mutant: the service is consulted before the funds are checked
DoHandleCashWithdrawal_ServiceFirst(self, amount, atm_id, services) ==
    LET remaining == CheckFundsAvailable(self, amount)
        valid == ValidateAtmWithdrawal(services, atm_id, amount)
    IN  IF ~valid.ok THEN Err(BankServiceErrorOf(valid.error), TRUE)
        ELSE IF ~remaining.ok THEN Err(remaining.error, TRUE)
        ELSE Ok(<<CashWithdrawal(amount)>>, TRUE)

\* ActiveBankAccount::do_handle_cash_withdrawal
DoHandleCashWithdrawal(self, amount, atm_id, services) ==
    LET remaining == CheckFundsAvailable(self, amount)
        valid == ValidateAtmWithdrawal(services, atm_id, amount)
    IN  IF ~remaining.ok THEN Err(remaining.error, FALSE)
        ELSE IF ~valid.ok THEN Err(BankServiceErrorOf(valid.error), TRUE)
        ELSE Ok(<<CashWithdrawal(amount)>>, TRUE)

\* mutant: the answer of the check validation is dropped
DoHandleCheckDisbursement_IgnoresService(self, check_nr, amount, services) ==
    LET remaining == CheckFundsAvailable(self, amount)
    IN  IF ~remaining.ok THEN Err(remaining.error, FALSE)
        ELSE Ok(<<CheckWithdrawal(check_nr, amount)>>, TRUE)

\* ActiveBankAccount::do_handle_check_disbursement
DoHandleCheckDisbursement(self, check_nr, amount, services) ==
    LET remaining == CheckFundsAvailable(self, amount)
        valid == ValidateCheck(services, self.account_id, check_nr)
    IN  IF ~remaining.ok THEN Err(remaining.error, FALSE)
        ELSE IF ~valid.ok THEN Err(BankServiceErrorOf(valid.error), TRUE)
        ELSE Ok(<<CheckWithdrawal(check_nr, amount)>>, TRUE)

\* mutant: an Active account accepts OpenAccount again
ActiveHandle_Reopens(self, command, services) ==
    CASE command.type = "OpenAccount" ->
            Ok(<<AccountOpened(command.account_id, command.user_name,
                               command.mailing_address, command.email)>>, FALSE)
      [] command.type = "DepositAmount" ->
            Ok(<<BalanceDeposited(command.amount)>>, FALSE)
      [] command.type = "WithdrawCash" ->
            DoHandleCashWithdrawal(self, command.amount, command.atm_id, services)
      [] command.type = "DisburseCheck" ->
            DoHandleCheckDisbursement(self, command.check_nr, command.amount, services)
      [] command.type = "ChangeMailingAddress" ->
            Ok(<<MailingAddressUpdated(command.new_address)>>, FALSE)
      [] command.type = "ChangeEmail" ->
            Ok(<<EmailUpdated(command.new_email)>>, FALSE)

\* mutant: a deposit is answered with a second event next to BalanceDeposited
ActiveHandle_DepositAudited(self, command, services) ==
    CASE command.type = "OpenAccount" ->
            Err(RejectedCommand("Active account cannot be reopened"), FALSE)
      [] command.type = "DepositAmount" ->
            Ok(<<BalanceDeposited(command.amount), EmailUpdated(self.email)>>, FALSE)
      [] command.type = "WithdrawCash" ->
            DoHandleCashWithdrawal(self, command.amount, command.atm_id, services)
      [] command.type = "DisburseCheck" ->
            DoHandleCheckDisbursement(self, command.check_nr, command.amount, services)
      [] command.type = "ChangeMailingAddress" ->
            Ok(<<MailingAddressUpdated(command.new_address)>>, FALSE)
      [] command.type = "ChangeEmail" ->
            Ok(<<EmailUpdated(command.new_email)>>, FALSE)

\* ActiveBankAccount::handle
ActiveHandle(self, command, services) ==
    CASE command.type = "OpenAccount" ->
            Err(RejectedCommand("Active account cannot be reopened"), FALSE)
      [] command.type = "DepositAmount" ->
            Ok(<<BalanceDeposited(command.amount)>>, FALSE)
      [] command.type = "WithdrawCash" ->
            DoHandleCashWithdrawal(self, command.amount, command.atm_id, services)
      [] command.type = "DisburseCheck" ->
            DoHandleCheckDisbursement(self, command.check_nr, command.amount, services)
      [] command.type = "ChangeMailingAddress" ->
            Ok(<<MailingAddressUpdated(command.new_address)>>, FALSE)
      [] command.type = "ChangeEmail" ->
            Ok(<<EmailUpdated(command.new_email)>>, FALSE)

\* mutant: a check withdrawal is added to the balance
ActiveApply_CheckAdds(self, event) ==
    CASE event.type = "BalanceDeposited" ->
            [some |-> TRUE, state |-> [self EXCEPT !.balance = @ + event.amount]]
      [] event.type = "CashWithdrawal" ->
            [some |-> TRUE, state |-> [self EXCEPT !.balance = @ - event.amount]]
      [] event.type = "CheckWithdrawal" ->
            [some |-> TRUE, state |-> [self EXCEPT !.balance = @ + event.amount]]
      [] event.type = "MailingAddressUpdated" ->
            [some |-> TRUE, state |-> [self EXCEPT !.mailing_address = event.new_address]]
      [] event.type = "EmailUpdated" ->
            [some |-> TRUE, state |-> [self EXCEPT !.email = event.new_email]]
      [] OTHER -> [some |-> FALSE]

\* mutant: a withdrawal event that would overdraw the account is not applied
ActiveApply_RefusesOverdraft(self, event) ==
    CASE event.type = "BalanceDeposited" ->
            [some |-> TRUE, state |-> [self EXCEPT !.balance = @ + event.amount]]
      [] event.type \in {"CashWithdrawal", "CheckWithdrawal"} ->
            IF self.balance - event.amount < ZERO_MONEY
            THEN [some |-> FALSE]
            ELSE [some |-> TRUE, state |-> [self EXCEPT !.balance = @ - event.amount]]
      [] event.type = "MailingAddressUpdated" ->
            [some |-> TRUE, state |-> [self EXCEPT !.mailing_address = event.new_address]]
      [] event.type = "EmailUpdated" ->
            [some |-> TRUE, state |-> [self EXCEPT !.email = event.new_email]]
      [] OTHER -> [some |-> FALSE]

\* mutant: the state with the new email is built with a balance of zero
ActiveApply_EmailResetsBalance(self, event) ==
    CASE event.type = "BalanceDeposited" ->
            [some |-> TRUE, state |-> [self EXCEPT !.balance = @ + event.amount]]
      [] event.type = "CashWithdrawal" ->
            [some |-> TRUE, state |-> [self EXCEPT !.balance = @ - event.amount]]
      [] event.type = "CheckWithdrawal" ->
            [some |-> TRUE, state |-> [self EXCEPT !.balance = @ - event.amount]]
      [] event.type = "MailingAddressUpdated" ->
            [some |-> TRUE, state |-> [self EXCEPT !.mailing_address = event.new_address]]
      [] event.type = "EmailUpdated" ->
            [some |-> TRUE, state |-> [self EXCEPT !.email = event.new_email,
                                                   !.balance = ZERO_MONEY]]
      [] OTHER -> [some |-> FALSE]

\* mutant: a withdrawal that empties the account closes it
ActiveApply_EmptiedAccountCloses(self, event) ==
    CASE event.type = "BalanceDeposited" ->
            [some |-> TRUE, state |-> [self EXCEPT !.balance = @ + event.amount]]
      [] event.type \in {"CashWithdrawal", "CheckWithdrawal"} ->
            IF self.balance - event.amount = ZERO_MONEY
            THEN [some |-> TRUE,
                  state |-> ClosedBankAccount(self.account_id, self.user_name,
                                              self.mailing_address, self.email)]
            ELSE [some |-> TRUE, state |-> [self EXCEPT !.balance = @ - event.amount]]
      [] event.type = "MailingAddressUpdated" ->
            [some |-> TRUE, state |-> [self EXCEPT !.mailing_address = event.new_address]]
      [] event.type = "EmailUpdated" ->
            [some |-> TRUE, state |-> [self EXCEPT !.email = event.new_email]]
      [] OTHER -> [some |-> FALSE]

\* ActiveBankAccount::apply: the new state, or None
ActiveApply(self, event) ==
    CASE event.type = "BalanceDeposited" ->
            [some |-> TRUE, state |-> [self EXCEPT !.balance = @ + event.amount]]
      [] event.type = "CashWithdrawal" ->
            [some |-> TRUE, state |-> [self EXCEPT !.balance = @ - event.amount]]
      [] event.type = "CheckWithdrawal" ->
            [some |-> TRUE, state |-> [self EXCEPT !.balance = @ - event.amount]]
      [] event.type = "MailingAddressUpdated" ->
            [some |-> TRUE, state |-> [self EXCEPT !.mailing_address = event.new_address]]
      [] event.type = "EmailUpdated" ->
            [some |-> TRUE, state |-> [self EXCEPT !.email = event.new_email]]
      [] OTHER -> [some |-> FALSE]

\* mutant: a closed account answers a command with an empty list of events
ClosedHandle_Silent(command) == Ok(<<>>, FALSE)

\* ClosedBankAccount::handle
ClosedHandle(command) ==
    Err(RejectedCommand("Closed account will not accept command"), FALSE)

\* mutant: an event takes a closed account back to the unopened state
ClosedApply_Reopens(event) == [some |-> TRUE, state |-> Quiescent]

\* ClosedBankAccount::apply
ClosedApply(event) == [some |-> FALSE]

\* BankAccountState::handle
StateHandle(state, command, services) ==
    CASE state.tag = "Quiescent" -> QuiescentHandle(command)
      [] state.tag = "Active" -> ActiveHandle(state, command, services)
      [] state.tag = "Closed" -> ClosedHandle(command)

\* BankAccountState::apply
StateApply(state, event) ==
    CASE state.tag = "Quiescent" -> QuiescentApply(event)
      [] state.tag = "Active" -> ActiveApply(state, event)
      [] state.tag = "Closed" -> ClosedApply(event)

\* BankAccount::handle
Handle(aggregate, command, services) == StateHandle(aggregate, command, services)

\* mutant: an event the state does not recognise resets the aggregate
Apply_NoneIsDefault(aggregate, event) ==
    LET new_state == StateApply(aggregate, event)
    IN  IF new_state.some THEN new_state.state ELSE Quiescent

\* BankAccount::apply
Apply(aggregate, event) ==
    LET new_state == StateApply(aggregate, event)
    IN  IF new_state.some THEN new_state.state ELSE aggregate

\* apply folded over a list of events, first to last
RECURSIVE ApplyAll(_, _)
ApplyAll(aggregate, evs) ==
    IF evs = <<>> THEN aggregate
    ELSE ApplyAll(Apply(aggregate, Head(evs)), Tail(evs))

\* --------------------------------------------------------------------- view
NoAccount == 0      \* Option<AccountId>::None

\* BankAccountView::default
DefaultView ==
    [account_id |-> NoAccount, balance |-> 0, written_checks |-> <<>>, ledger |-> <<>>]

LedgerEntry(description, amount) == [description |-> description, amount |-> amount]

\* mutant: the ledger entry of a withdrawal keeps the sign of the amount
Debit_Unsigned(amount) == amount

\* make_neg_factor(currency) * amount
Debit(amount) == (-1) * amount

\* convert_amount: every amount is in the view's currency, the branch that
\* returns the amount as it is
ConvertAmount(amount) == amount

\* mutant: a deposit changes the balance and leaves the ledger as it is
ViewUpdate_DepositNotInLedger(self, envelope) ==
    LET event == envelope.payload
    IN  CASE event.type = "AccountOpened" ->
                [self EXCEPT !.account_id = event.account_id]
          [] event.type = "BalanceDeposited" ->
                [self EXCEPT !.balance = @ + ConvertAmount(event.amount)]
          [] event.type = "CashWithdrawal" ->
                [self EXCEPT !.ledger = Append(@, LedgerEntry("ATM withdrawal",
                                                              Debit(event.amount))),
                             !.balance = @ - ConvertAmount(event.amount)]
          [] event.type = "CheckWithdrawal" ->
                [self EXCEPT !.ledger = Append(@, LedgerEntry(
                                            "Check " \o ToString(event.check_nr),
                                            Debit(event.amount))),
                             !.written_checks = Append(@, event.check_nr),
                             !.balance = @ - ConvertAmount(event.amount)]
          [] OTHER -> self

\* mutant: the number of a check is put in front of the written checks
ViewUpdate_CheckInFront(self, envelope) ==
    LET event == envelope.payload
    IN  CASE event.type = "AccountOpened" ->
                [self EXCEPT !.account_id = event.account_id]
          [] event.type = "BalanceDeposited" ->
                [self EXCEPT !.ledger = Append(@, LedgerEntry("deposit", event.amount)),
                             !.balance = @ + ConvertAmount(event.amount)]
          [] event.type = "CashWithdrawal" ->
                [self EXCEPT !.ledger = Append(@, LedgerEntry("ATM withdrawal",
                                                              Debit(event.amount))),
                             !.balance = @ - ConvertAmount(event.amount)]
          [] event.type = "CheckWithdrawal" ->
                [self EXCEPT !.ledger = Append(@, LedgerEntry(
                                            "Check " \o ToString(event.check_nr),
                                            Debit(event.amount))),
                             !.written_checks = <<event.check_nr>> \o @,
                             !.balance = @ - ConvertAmount(event.amount)]
          [] OTHER -> self

\* mutant: an event whose ledger entry equals the last entry of the ledger is
\* taken for a repetition and skipped
ViewUpdate_SkipsRepeated(self, envelope) ==
    LET event == envelope.payload
        entry == CASE event.type = "BalanceDeposited" ->
                         LedgerEntry("deposit", event.amount)
                   [] event.type = "CashWithdrawal" ->
                         LedgerEntry("ATM withdrawal", Debit(event.amount))
                   [] event.type = "CheckWithdrawal" ->
                         LedgerEntry("Check " \o ToString(event.check_nr),
                                     Debit(event.amount))
                   [] OTHER -> LedgerEntry("", ZERO_MONEY)
        repeated == /\ event.type \in TransactionalEvents
                    /\ self.ledger # <<>>
                    /\ self.ledger[Len(self.ledger)] = entry
    IN  CASE repeated -> self
          [] event.type = "AccountOpened" ->
                [self EXCEPT !.account_id = event.account_id]
          [] event.type = "BalanceDeposited" ->
                [self EXCEPT !.ledger = Append(@, entry),
                             !.balance = @ + ConvertAmount(event.amount)]
          [] event.type = "CashWithdrawal" ->
                [self EXCEPT !.ledger = Append(@, entry),
                             !.balance = @ - ConvertAmount(event.amount)]
          [] event.type = "CheckWithdrawal" ->
                [self EXCEPT !.ledger = Append(@, entry),
                             !.written_checks = Append(@, event.check_nr),
                             !.balance = @ - ConvertAmount(event.amount)]
          [] OTHER -> self

\* BankAccountView::update
ViewUpdate(self, envelope) ==
    LET event == envelope.payload
    IN  CASE event.type = "AccountOpened" ->
                [self EXCEPT !.account_id = event.account_id]
          [] event.type = "BalanceDeposited" ->
                [self EXCEPT !.ledger = Append(@, LedgerEntry("deposit", event.amount)),
                             !.balance = @ + ConvertAmount(event.amount)]
          [] event.type = "CashWithdrawal" ->
                [self EXCEPT !.ledger = Append(@, LedgerEntry("ATM withdrawal",
                                                              Debit(event.amount))),
                             !.balance = @ - ConvertAmount(event.amount)]
          [] event.type = "CheckWithdrawal" ->
                [self EXCEPT !.ledger = Append(@, LedgerEntry(
                                            "Check " \o ToString(event.check_nr),
                                            Debit(event.amount))),
                             !.written_checks = Append(@, event.check_nr),
                             !.balance = @ - ConvertAmount(event.amount)]
          [] OTHER -> self

\* update folded over a batch of event envelopes, first to last
RECURSIVE UpdateAll(_, _)
UpdateAll(view, envelopes) ==
    IF envelopes = <<>> THEN view
    ELSE UpdateAll(ViewUpdate(view, Head(envelopes)), Tail(envelopes))

\* ------------------------------------------------------------ error mapping
\* Result of execute_with_metadata, after map_err::<BankError, _>
BankOk == [kind |-> "Ok"]
AggregateUserError(err) == [kind |-> "UserError", source |-> err]
AggregateConflictError == [kind |-> "AggregateConflict"]
AggregateDatabaseConnectionError(err) ==
    [kind |-> "DatabaseConnectionError", source |-> err]
AggregateDeserializationError(err) == [kind |-> "DeserializationError", source |-> err]
AggregateUnexpectedError(err) == [kind |-> "UnexpectedError", source |-> err]
AggregateDatabaseError == AggregateDatabaseConnectionError("connection refused")

\* mutant: the conflict is reported as an unexpected technical failure
BankErrorFrom_ConflictLost(error) ==
    CASE error.kind = "UserError" -> [kind |-> "User", source |-> error.source]
      [] error.kind = "AggregateConflict" ->
            [kind |-> "Unexpected", source |-> "conflict"]
      [] error.kind = "DatabaseConnectionError" ->
            [kind |-> "DatabaseConnection", source |-> error.source]
      [] error.kind = "DeserializationError" ->
            [kind |-> "Deserialization", source |-> error.source]
      [] error.kind = "UnexpectedError" ->
            [kind |-> "Unexpected", source |-> error.source]

\* impl From<AggregateError<E>> for BankError
BankErrorFrom(error) ==
    CASE error.kind = "UserError" -> [kind |-> "User", source |-> error.source]
      [] error.kind = "AggregateConflict" -> [kind |-> "AggregateConflict"]
      [] error.kind = "DatabaseConnectionError" ->
            [kind |-> "DatabaseConnection", source |-> error.source]
      [] error.kind = "DeserializationError" ->
            [kind |-> "Deserialization", source |-> error.source]
      [] error.kind = "UnexpectedError" ->
            [kind |-> "Unexpected", source |-> error.source]

\* mutant: a failure of the database is answered as a client error
HttpErrorFrom_DatabaseIsBadRequest(error) ==
    CASE error.kind = "BankAccount" /\ error.source.kind = "NotFound" -> "NotFound"
      [] error.kind = "BankAccount" /\ error.source.kind # "NotFound" -> "BadRequest"
      [] error.kind = "Api" -> "Internal"
      [] error.kind = "User" -> "BadRequest"
      [] error.kind = "DatabaseConnection" -> "BadRequest"
      [] OTHER -> "Internal"

\* HttpError::from_error, on the BankError a route handler returned
HttpErrorFrom(error) ==
    CASE error.kind = "BankAccount" /\ error.source.kind = "NotFound" -> "NotFound"
      [] error.kind = "BankAccount" /\ error.source.kind # "NotFound" -> "BadRequest"
      [] error.kind = "Api" -> "Internal"
      [] error.kind = "User" -> "BadRequest"
      [] OTHER -> "Internal"

\* impl IntoResponse for HttpError: the status code of the response
StatusCode(http_error) ==
    CASE http_error = "NotFound" -> 404
      [] http_error = "BadRequest" -> 400
      [] http_error = "Internal" -> 500

\* Display of BankServiceError
DisplayBankServiceError(err) ==
    CASE err.kind = "Atm" -> "ATM rule violation: " \o err.reason
      [] err.kind = "InvalidCheck" ->
            "Invalid check " \o ToString(err.check_nr) \o " for account "
                \o ToString(err.account_id)

\* Display of BankAccountError
DisplayBankAccountError(err) ==
    CASE err.kind = "NotFound" ->
            "bank account not found id: " \o ToString(err.account_id)
      [] err.kind = "InsufficientFunds" ->
            ToString(err.amount) \o " funds not available in account, "
                \o ToString(err.account_id)
      [] err.kind = "BankServiceError" -> DisplayBankServiceError(err.source)
      [] err.kind = "RejectedCommand" -> "Rejected command: " \o err.reason

\* Display of BankError: the text of the source follows the text of the variant
Display(error) ==
    CASE error.kind = "Api" -> error.source
      [] error.kind = "Validation" -> "Invalid request data: " \o error.source
      [] error.kind = "BankAccount" -> DisplayBankAccountError(error.source)
      [] error.kind = "User" ->
            "User violated bank service business rules: "
                \o DisplayBankAccountError(error.source)
      [] error.kind = "AggregateConflict" ->
            "Command was rejected due to a conflict with another command on the same aggregate instance - may retry."
      [] error.kind = "DatabaseConnection" ->
            "failure during attempted database read or write: " \o error.source
      [] error.kind = "Deserialization" ->
            "failed to deserialize JSON - possibly invalid: " \o error.source
      [] error.kind = "Unexpected" ->
            "Encountered a technical failure preventing the command from being applied to the aggregate: "
                \o error.source

\* impl From<anyhow::Error> for ErrorReport
ErrorReportFrom(error) == [error |-> Display(error)]

\* impl IntoResponse for BankError: HttpError::from_error, then the status and
\* the JSON body of impl IntoResponse for HttpError
IntoResponse(error) ==
    LET http_error == HttpErrorFrom(error)
    IN  [status |-> StatusCode(http_error),
         body |-> IF http_error = "NotFound"
                  THEN [message |-> "No bank account found for account id: "
                                       \o ToString(error.source.account_id)]
                  ELSE ErrorReportFrom(error)]

\* what the caller of a command route is answered with: the body of the route
\* on success, the response of the error otherwise
Respond(result, body) ==
    IF result.kind = "Ok" THEN [status |-> 200, body |-> body]
    ELSE IntoResponse(result)

\* AccountApplication::validate: the email address has to be a valid one
InvalidEmail == "neo.example.com"
ValidEmail(email) == email \in {Email0, Email1}
Validate(account_application) ==
    IF ValidEmail(account_application.email)
    THEN [ok |-> TRUE]
    ELSE [ok |-> FALSE, error |-> [kind |-> "Validation", source |-> "email"]]

\* create_bank_account, with an event store and a view store that accept the
\* new stream: validate, generate the id, execute OpenAccount on it, answer
\* with the account id
CreateBankAccount(account_application, num, services) ==
    LET valid == Validate(account_application)
        aggregate_id == GenerateId(num)
        account_id == AccountIdOfId(aggregate_id)
        command == [type |-> "OpenAccount", account_id |-> account_id,
                    user_name |-> account_application.user_name,
                    mailing_address |-> account_application.mailing_address,
                    email |-> account_application.email]
        res == Handle(Quiescent, command, services)
    IN  IF ~valid.ok
        THEN [executed |-> FALSE, command |-> [type |-> "None"], events |-> <<>>,
              response |-> IntoResponse(valid.error)]
        ELSE [executed |-> TRUE, command |-> command, events |-> res.events,
              response |-> Respond(BankOk, account_id)]

\* -------------------------------------------------------------------- state
VARIABLES
    events,     \* account id -> the committed event stream (event envelopes)
    views,      \* account id -> the stored view row (version 0: no row)
    procs,      \* execution slot -> the command execution running in it
    results,    \* correlation id -> what the execution returned to its caller
    nextCorr,   \* the correlation id of the next command execution
    observed,   \* correlation id -> the query dispatches made for that execution
    fn          \* inputs and outputs of handle / apply taken as pure functions

vars == <<events, views, procs, results, nextCorr, observed, fn>>

NoCommand == [type |-> "None"]
Idle ==
    [pc |-> "idle", id |-> 0, corr |-> 0, command |-> NoCommand,
     aggregate |-> Quiescent, current_sequence |-> 0, batch |-> <<>>,
     view |-> DefaultView, view_version |-> 0, retry_of |-> 0]
NoRow == [version |-> 0, payload |-> DefaultView]
Pending == [id |-> 0, current_sequence |-> 0, outcome |-> [kind |-> "Pending"]]
FnIdle == [phase |-> "off"]

Payloads(envelopes) == [i \in 1..Len(envelopes) |-> envelopes[i].payload]

\* EventStore::load_aggregate: the aggregate replayed from its stream
Replay(envelopes) == ApplyAll(Quiescent, Payloads(envelopes))

\* mutant: the first event is given the loaded sequence number again
WrapEvents_FromLoaded(id, current_sequence, evs, corr) ==
    [i \in 1..Len(evs) |->
        [aggregate_id |-> Pretty(id), sequence |-> current_sequence + i - 1,
         payload |-> evs[i], metadata |-> corr]]

\* PersistedEventStore::wrap_events: sequence numbers follow the loaded one
WrapEvents(id, current_sequence, evs, corr) ==
    [i \in 1..Len(evs) |->
        [aggregate_id |-> Pretty(id), sequence |-> current_sequence + i,
         payload |-> evs[i], metadata |-> corr]]

Finish(p, outcome) ==
    /\ results' = [results EXCEPT ![procs[p].corr] =
                      [id |-> procs[p].id,
                       current_sequence |-> procs[p].current_sequence,
                       outcome |-> outcome]]
    /\ procs' = [procs EXCEPT ![p] = Idle]

Init ==
    /\ events = [i \in AccountIds |-> <<>>]
    /\ views = [i \in AccountIds |-> NoRow]
    /\ procs = [p \in Procs |-> Idle]
    /\ results = [c \in 1..MaxCmds |-> Pending]
    /\ nextCorr = 1
    /\ observed = [c \in 1..MaxCmds |-> <<>>]
    /\ fn = FnIdle

\* the execution slots are interchangeable: a new execution takes the first
\* free one
FreeSlot(p) ==
    /\ procs[p].pc = "idle"
    /\ \A q \in Procs : q < p => procs[q].pc # "idle"

\* mutant: a rejected command still writes the view row of its account
Execute_RejectedWritesView(p, id, command, services) ==
    /\ FreeSlot(p)
    /\ nextCorr <= MaxCmds
    /\ nextCorr' = nextCorr + 1
    /\ LET aggregate == Replay(events[id])
           res == Handle(aggregate, command, services)
           started == [Idle EXCEPT !.id = id, !.corr = nextCorr, !.command = command,
                                   !.aggregate = aggregate,
                                   !.current_sequence = Len(events[id])]
       IN  IF res.ok
           THEN /\ procs' = [procs EXCEPT ![p] =
                               [started EXCEPT !.pc = "commit", !.batch = res.events]]
                /\ UNCHANGED <<results, views>>
           ELSE /\ results' = [results EXCEPT ![nextCorr] =
                                 [id |-> id, current_sequence |-> Len(events[id]),
                                  outcome |-> BankErrorFrom(AggregateUserError(res.error))]]
                /\ views' = [views EXCEPT ![id].version = @ + 1]
                /\ UNCHANGED procs
    /\ UNCHANGED <<events, observed, fn>>

\* execute_with_metadata, up to the commit: the route handler builds the
\* command, store.load_aggregate replays the stream, aggregate.handle decides
Execute(p, id, command, services) ==
    /\ FreeSlot(p)
    /\ nextCorr <= MaxCmds
    /\ nextCorr' = nextCorr + 1
    /\ LET aggregate == Replay(events[id])
           res == Handle(aggregate, command, services)
           started == [Idle EXCEPT !.id = id, !.corr = nextCorr, !.command = command,
                                   !.aggregate = aggregate,
                                   !.current_sequence = Len(events[id])]
       IN  IF res.ok
           THEN /\ procs' = [procs EXCEPT ![p] =
                               [started EXCEPT !.pc = "commit", !.batch = res.events]]
                /\ UNCHANGED results
           ELSE /\ results' = [results EXCEPT ![nextCorr] =
                                 [id |-> id, current_sequence |-> Len(events[id]),
                                  outcome |-> BankErrorFrom(AggregateUserError(res.error))]]
                /\ UNCHANGED procs
    /\ UNCHANGED <<events, views, observed, fn>>

\* mutant: the commit appends without comparing versions
Commit_NoVersionCheck(p) ==
    /\ procs[p].pc = "commit"
    /\ LET id == procs[p].id
           wrapped == WrapEvents(id, procs[p].current_sequence, procs[p].batch,
                                 procs[p].corr)
       IN  /\ events' = [events EXCEPT ![id] = @ \o wrapped]
           /\ procs' = [procs EXCEPT ![p].pc = "dispatch", ![p].batch = wrapped]
           /\ UNCHANGED results
    /\ UNCHANGED <<views, nextCorr, observed, fn>>

\* mutant: the sequence numbers are unique over the whole store, not per stream
Commit_SharedSequence(p) ==
    /\ procs[p].pc = "commit"
    /\ LET id == procs[p].id
           wrapped == WrapEvents(id, procs[p].current_sequence, procs[p].batch,
                                 procs[p].corr)
       IN  IF /\ Len(events[id]) = procs[p].current_sequence
              /\ \A other \in AccountIds :
                    Len(events[other]) <= procs[p].current_sequence
           THEN /\ events' = [events EXCEPT ![id] = @ \o wrapped]
                /\ procs' = [procs EXCEPT ![p].pc = "dispatch", ![p].batch = wrapped]
                /\ UNCHANGED results
           ELSE /\ Finish(p, BankErrorFrom(AggregateConflictError))
                /\ UNCHANGED events
    /\ UNCHANGED <<views, nextCorr, observed, fn>>

\* mutant: after a conflict the execution loads the stream again, handles the
\* command on the new state and tries the commit once more
Commit_Retries(p) ==
    /\ procs[p].pc = "commit"
    /\ LET id == procs[p].id
           wrapped == WrapEvents(id, procs[p].current_sequence, procs[p].batch,
                                 procs[p].corr)
           aggregate == Replay(events[id])
           res == Handle(aggregate, procs[p].command, "HappyPath")
       IN  IF Len(events[id]) = procs[p].current_sequence
           THEN /\ events' = [events EXCEPT ![id] = @ \o wrapped]
                /\ procs' = [procs EXCEPT ![p].pc = "dispatch", ![p].batch = wrapped]
                /\ UNCHANGED results
           ELSE IF res.ok
                THEN /\ procs' = [procs EXCEPT ![p].aggregate = aggregate,
                                               ![p].current_sequence = Len(events[id]),
                                               ![p].batch = res.events]
                     /\ UNCHANGED <<events, results>>
                ELSE /\ Finish(p, BankErrorFrom(AggregateUserError(res.error)))
                     /\ UNCHANGED events
    /\ UNCHANGED <<views, nextCorr, observed, fn>>

\* execute_with_metadata: store.commit; the insert of a sequence number the
\* stream already holds is an optimistic-lock error
Commit(p) ==
    /\ procs[p].pc = "commit"
    /\ LET id == procs[p].id
           wrapped == WrapEvents(id, procs[p].current_sequence, procs[p].batch,
                                 procs[p].corr)
       IN  IF Len(events[id]) = procs[p].current_sequence
           THEN /\ events' = [events EXCEPT ![id] = @ \o wrapped]
                /\ procs' = [procs EXCEPT ![p].pc = "dispatch", ![p].batch = wrapped]
                /\ UNCHANGED results
           ELSE /\ Finish(p, BankErrorFrom(AggregateConflictError))
                /\ UNCHANGED events
    /\ UNCHANGED <<views, nextCorr, observed, fn>>

\* the event store fails while the events are written
StoreFailure(p) ==
    /\ procs[p].pc = "commit"
    /\ Finish(p, BankErrorFrom(AggregateDatabaseError))
    /\ UNCHANGED <<events, views, nextCorr, observed, fn>>

\* mutant: the account query is registered before the tracing query
Queries_ViewFirst == <<"AccountQuery", "EventTracingQuery">>

\* the queries initialize_app_state hands to the framework, in that order
Queries == <<"EventTracingQuery", "AccountQuery">>

\* what a query is dispatched with: dispatch(aggregate_id, events)
Dispatched(query, id, envelopes) ==
    [query |-> query, aggregate_id |-> Pretty(id), events |-> envelopes]

\* the committed batch goes to the queries in registration order:
\* EventTracingQuery::dispatch traces it, GenericQuery::dispatch runs up to
\* load_mut (the stored view or the default one)
Dispatch(p) ==
    /\ procs[p].pc = "dispatch"
    /\ observed' = [observed EXCEPT ![procs[p].corr] =
                       [q \in 1..Len(Queries) |->
                           Dispatched(Queries[q], procs[p].id, procs[p].batch)]]
    /\ procs' = [procs EXCEPT ![p].pc = "view_save",
                              ![p].view = views[procs[p].id].payload,
                              ![p].view_version = views[procs[p].id].version]
    /\ UNCHANGED <<events, views, results, nextCorr, fn>>

\* GenericQuery::apply_events: update per event, then update_view (insert for
\* a new view, which a row of that id refuses; update otherwise)
SaveView(p) ==
    /\ procs[p].pc = "view_save"
    /\ LET id == procs[p].id
       IN  /\ procs[p].view_version = 0 => views[id].version = 0
           /\ views' = [views EXCEPT ![id] =
                           [version |-> procs[p].view_version + 1,
                            payload |-> UpdateAll(procs[p].view, procs[p].batch)]]
    /\ Finish(p, BankOk)
    /\ UNCHANGED <<events, nextCorr, observed, fn>>

\* mutant: the failure of the view repository is returned to the caller
ViewFailure_Propagates(p) ==
    /\ procs[p].pc = "view_save"
    /\ Finish(p, BankErrorFrom(AggregateDatabaseError))
    /\ UNCHANGED <<events, views, nextCorr, observed, fn>>

\* mutant: the execution whose view could not be saved is dispatched again
ViewFailure_Retries(p) ==
    /\ procs[p].pc = "view_save"
    /\ procs' = [procs EXCEPT ![p].pc = "dispatch",
                              ![p].view = Idle.view,
                              ![p].view_version = Idle.view_version]
    /\ UNCHANGED <<events, views, results, nextCorr, observed, fn>>

\* GenericQuery::dispatch: saving the view fails, the error handler set by
\* initialize_app_state logs it
ViewFailure(p) ==
    /\ procs[p].pc = "view_save"
    /\ Finish(p, BankOk)
    /\ UNCHANGED <<events, views, nextCorr, observed, fn>>

Next ==
    \/ \E p \in Procs, id \in AccountIds, services \in ServiceModes :
          \E command \in CommandsFor(id) : Execute(p, id, command, services)
    \/ \E p \in Procs : Commit(p)
    \/ \E p \in Procs : StoreFailure(p)
    \/ \E p \in Procs : Dispatch(p)
    \/ \E p \in Procs : SaveView(p)
    \/ \E p \in Procs : ViewFailure(p)

Spec == Init /\ [][Next]_vars

\* the persisted event record of an envelope of the stream
SerializedEvent(envelope) ==
    [aggregate_type |-> AggregateType, aggregate_id |-> envelope.aggregate_id,
     sequence |-> envelope.sequence, event_type |-> EventType(envelope.payload),
     event_version |-> EventVersion(envelope.payload),
     payload |-> envelope.payload, metadata |-> envelope.metadata]

\* the persisted view record of an account: view_id is the aggregate id
ViewRecord(id) ==
    [view_id |-> Pretty(id), version |-> views[id].version,
     payload |-> views[id].payload]

\* ------------------------------------------- a view store that checks versions
\* update_view that writes only if the row still has the version that was
\* loaded, in a store that does not fail otherwise
SaveViewVersioned(p) ==
    /\ procs[p].pc = "view_save"
    /\ views[procs[p].id].version = procs[p].view_version
    /\ views' = [views EXCEPT ![procs[p].id] =
                    [version |-> procs[p].view_version + 1,
                     payload |-> UpdateAll(procs[p].view, procs[p].batch)]]
    /\ Finish(p, BankOk)
    /\ UNCHANGED <<events, nextCorr, observed, fn>>

\* the row has another version by now: the save is refused, the error handler
\* logs it
ViewConflict(p) ==
    /\ procs[p].pc = "view_save"
    /\ views[procs[p].id].version # procs[p].view_version
    /\ Finish(p, BankOk)
    /\ UNCHANGED <<events, views, nextCorr, observed, fn>>

NextVersioned ==
    \/ \E p \in Procs, id \in AccountIds, services \in ServiceModes :
          \E command \in CommandsFor(id) : Execute(p, id, command, services)
    \/ \E p \in Procs : Commit(p)
    \/ \E p \in Procs : StoreFailure(p)
    \/ \E p \in Procs : Dispatch(p)
    \/ \E p \in Procs : SaveViewVersioned(p)
    \/ \E p \in Procs : ViewConflict(p)

SpecVersioned == Init /\ [][NextVersioned]_vars

\* ------------------------------------------------ one execution at a time
\* A caller that waits for the answer of a command before it sends the next
\* one, and stores that do not fail on their own: every command, with every
\* check number, to the first account.
\* the commands of such a caller: also a deposit that covers two withdrawals
SequentialCommandsFor(account_id) ==
    IF account_id = 1
    THEN BankAccountCommand(account_id) \cup {DepositAmount(MaxAmount + 1)}
    ELSE CommandsFor(account_id)

ExecuteAlone(p, id, command, services) ==
    /\ \A q \in Procs : procs[q].pc = "idle"
    /\ Execute(p, id, command, services)

NextSequential ==
    \/ \E p \in Procs, id \in AccountIds, services \in ServiceModes :
          \E command \in SequentialCommandsFor(id) :
             ExecuteAlone(p, id, command, services)
    \/ \E p \in Procs : Commit(p)
    \/ \E p \in Procs : Dispatch(p)
    \/ \E p \in Procs : SaveView(p)

SpecSequential == Init /\ [][NextSequential]_vars

\* ------------------------------------------------ stores that answer
\* Executions that contend for the first account with the commands that open
\* it, deposit and withdraw, on stores that may fail but
\* always answer: an execution waiting for the event store gets the commit,
\* the conflict or the failure; one waiting for the view repository gets the
\* save or its failure. Callers are not bound to send commands.
ContendingCommands ==
    {c \in CommandsFor(1) :
        /\ c.type \in {"OpenAccount", "DepositAmount", "WithdrawCash"}
        /\ c.type # "OpenAccount" => c.amount = MaxAmount}

NextLive ==
    \/ \E p \in Procs, services \in ServiceModes :
          \E command \in ContendingCommands : Execute(p, 1, command, services)
    \/ \E p \in Procs : Commit(p)
    \/ \E p \in Procs : StoreFailure(p)
    \/ \E p \in Procs : Dispatch(p)
    \/ \E p \in Procs : SaveView(p)
    \/ \E p \in Procs : ViewFailure(p)

StoresAnswer ==
    \A p \in Procs :
        /\ WF_vars(Commit(p) \/ StoreFailure(p))
        /\ WF_vars(Dispatch(p))
        /\ WF_vars(SaveView(p) \/ ViewFailure(p))

SpecLive == Init /\ [][NextLive]_vars /\ StoresAnswer

\* ------------------------------------------------- a caller that retries
\* A caller that keeps the command it sent and, when it is answered with
\* AggregateConflict, sends the same command again or gives up; stores that do
\* not fail on their own, commands to the first account.
MaxRetries == 1

InitRetry ==
    /\ events = [i \in AccountIds |-> <<>>]
    /\ views = [i \in AccountIds |-> NoRow]
    /\ procs = [p \in Procs |-> Idle]
    /\ results = [c \in 1..(MaxCmds + MaxRetries) |-> Pending]
    /\ nextCorr = 1
    /\ observed = [c \in 1..(MaxCmds + MaxRetries) |-> <<>>]
    /\ fn = FnIdle

\* the commit of the execution; the caller that is answered with
\* AggregateConflict still has its command
CommitOrHold(p) ==
    /\ procs[p].pc = "commit"
    /\ IF Len(events[procs[p].id]) = procs[p].current_sequence
       THEN Commit(p)
       ELSE /\ results' = [results EXCEPT ![procs[p].corr] =
                              [id |-> procs[p].id,
                               current_sequence |-> procs[p].current_sequence,
                               outcome |-> BankErrorFrom(AggregateConflictError)]]
            /\ procs' = [procs EXCEPT ![p].pc = "conflicted"]
            /\ UNCHANGED <<events, views, nextCorr, observed, fn>>

\* mutant: the caller sends the events decided on the state loaded before,
\* for the version loaded before
Reissue_StaleState(p, services) ==
    /\ procs[p].pc = "conflicted"
    /\ nextCorr <= MaxCmds + MaxRetries
    /\ nextCorr' = nextCorr + 1
    /\ procs' = [procs EXCEPT ![p].pc = "commit", ![p].corr = nextCorr,
                              ![p].retry_of = procs[p].corr]
    /\ UNCHANGED <<events, views, results, observed, fn>>

\* the caller sends the command again: the route handler runs
\* execute_with_metadata once more, which loads the stream as it is now and
\* handles the command on that state
Reissue(p, services) ==
    /\ procs[p].pc = "conflicted"
    /\ nextCorr <= MaxCmds + MaxRetries
    /\ nextCorr' = nextCorr + 1
    /\ LET id == procs[p].id
           aggregate == Replay(events[id])
           res == Handle(aggregate, procs[p].command, services)
           started == [Idle EXCEPT !.id = id, !.corr = nextCorr,
                                   !.command = procs[p].command,
                                   !.aggregate = aggregate,
                                   !.current_sequence = Len(events[id]),
                                   !.retry_of = procs[p].corr]
       IN  IF res.ok
           THEN /\ procs' = [procs EXCEPT ![p] =
                               [started EXCEPT !.pc = "commit", !.batch = res.events]]
                /\ UNCHANGED results
           ELSE /\ results' = [results EXCEPT ![nextCorr] =
                                 [id |-> id, current_sequence |-> Len(events[id]),
                                  outcome |-> BankErrorFrom(AggregateUserError(res.error))]]
                /\ procs' = [procs EXCEPT ![p] = Idle]
    /\ UNCHANGED <<events, views, observed, fn>>

\* the caller does not send the command again
GiveUp(p) ==
    /\ procs[p].pc = "conflicted"
    /\ procs' = [procs EXCEPT ![p] = Idle]
    /\ UNCHANGED <<events, views, results, nextCorr, observed, fn>>

NextRetry ==
    \/ \E p \in Procs, services \in ServiceModes :
          \E command \in CommandsFor(1) : Execute(p, 1, command, services)
    \/ \E p \in Procs : CommitOrHold(p)
    \/ \E p \in Procs, services \in ServiceModes : Reissue(p, services)
    \/ \E p \in Procs : GiveUp(p)
    \/ \E p \in Procs : Dispatch(p)
    \/ \E p \in Procs : SaveView(p)

SpecRetry == InitRetry /\ [][NextRetry]_vars

\* ------------------------------------------- handle and apply as functions
\* The aggregate states handle and apply are defined on, reachable or not
\* (a stream written by hand, a Closed account).
Balances == (-1)..(MaxAmount + 1)
BankAccountStates ==
    {Quiescent}
    \cup {ActiveBankAccount(1, UserNameOf(1), b, Address0, Email0) : b \in Balances}
    \cup {ClosedBankAccount(1, UserNameOf(1), Address0, Email0)}

InitFn ==
    /\ events = [i \in AccountIds |-> <<>>]
    /\ views = [i \in AccountIds |-> NoRow]
    /\ procs = [p \in Procs |-> Idle]
    /\ results = [c \in 1..MaxCmds |-> Pending]
    /\ nextCorr = 1
    /\ observed = [c \in 1..MaxCmds |-> <<>>]
    /\ fn \in [phase : {"input"}, state : BankAccountStates,
               command : BankAccountCommand(1), services : ServiceModes,
               event : BankAccountEvent]

\* BankAccount::handle on the drawn state and command
FnHandle ==
    /\ fn.phase = "input"
    /\ fn' = [phase |-> "handled", state |-> fn.state, command |-> fn.command,
              services |-> fn.services,
              out |-> Handle(fn.state, fn.command, fn.services)]
    /\ UNCHANGED <<events, views, procs, results, nextCorr, observed>>

\* BankAccount::apply on the drawn state and event
FnApply ==
    /\ fn.phase = "input"
    /\ fn' = [phase |-> "applied", state |-> fn.state, event |-> fn.event,
              next |-> Apply(fn.state, fn.event)]
    /\ UNCHANGED <<events, views, procs, results, nextCorr, observed>>

\* the errors execute_with_metadata can return, with the sources of the
\* technical ones
SourceErrors == {"connection refused", "pool timed out"}
BankAccountErrors ==
    {RejectedCommand("Unopened account cannot process command"),
     InsufficientFunds(1, 1),
     BankServiceErrorOf(AtmError("refused")),
     BankServiceErrorOf(InvalidCheck(1, 7))}
AggregateErrors ==
    {AggregateUserError(err) : err \in BankAccountErrors}
    \cup {AggregateConflictError}
    \cup {AggregateDatabaseConnectionError(err) : err \in SourceErrors}
    \cup {AggregateDeserializationError(err) : err \in SourceErrors}
    \cup {AggregateUnexpectedError(err) : err \in SourceErrors}

\* a command route whose execute_with_metadata returned an error: map_err to
\* BankError, then the response
FnRespond ==
    /\ fn.phase = "input"
    /\ \E error \in AggregateErrors :
          fn' = [phase |-> "responded", error |-> error,
                 response |-> Respond(BankErrorFrom(error), "")]
    /\ UNCHANGED <<events, views, procs, results, nextCorr, observed>>

\* the applications a create-account request can carry
AccountApplications ==
    [user_name : {UserNameOf(1)}, mailing_address : {Address0},
     email : {Email0, InvalidEmail}]

\* create_bank_account on a drawn application
FnCreate ==
    /\ fn.phase = "input"
    /\ \E account_application \in AccountApplications, num \in AccountIds :
          fn' = [phase |-> "created", account_application |-> account_application,
                 num |-> num,
                 out |-> CreateBankAccount(account_application, num, fn.services)]
    /\ UNCHANGED <<events, views, procs, results, nextCorr, observed>>

\* ------------------------------------------------------------ health routes
\* impl From<HealthStatus> for StatusCode
StatusCodeOfHealth(health) ==
    CASE health = "Up" -> 200
      [] health = "Error" -> 500
      [] health \in {"Down", "NotReady"} -> 503

\* the two services whose queries check_health runs, with their answers
ServiceStatuses(agg_status, view_status) ==
    <<[service |-> "bank_account_aggregate", ok |-> agg_status],
      [service |-> "bank_account_view", ok |-> view_status]>>

\* Up for a query that succeeded, Error for one that failed
ServiceHealth(status) == IF status.ok THEN "Up" ELSE "Error"

\* mutant: the system is Up when some service is Up
CheckHealth_AnyUp(agg_status, view_status) ==
    LET service_statuses == ServiceStatuses(agg_status, view_status)
        healths == {ServiceHealth(service_statuses[i]) : i \in 1..Len(service_statuses)}
        health_report ==
            [health \in healths |->
                {service_statuses[i].service : i \in
                    {j \in 1..Len(service_statuses) :
                        ServiceHealth(service_statuses[j]) = health}}]
        all_services_are_up == \E health \in DOMAIN health_report : health = "Up"
    IN  [system_health |-> IF all_services_are_up THEN "Up" ELSE "Down",
         health_report |-> health_report]

\* check_health: the services grouped by their health; the system is Up when
\* every group is the group of Up
CheckHealth(agg_status, view_status) ==
    LET service_statuses == ServiceStatuses(agg_status, view_status)
        healths == {ServiceHealth(service_statuses[i]) : i \in 1..Len(service_statuses)}
        health_report ==
            [health \in healths |->
                {service_statuses[i].service : i \in
                    {j \in 1..Len(service_statuses) :
                        ServiceHealth(service_statuses[j]) = health}}]
        all_services_are_up == \A health \in DOMAIN health_report : health = "Up"
    IN  [system_health |-> IF all_services_are_up THEN "Up" ELSE "Down",
         health_report |-> health_report]

HealthRoutes == {"health", "ready", "live"}

\* serve_health answers with the status code and the report of the system
\* health, serve_readiness and serve_liveness with the status code alone
ServeHealth(route, agg_status, view_status) ==
    LET system_health == CheckHealth(agg_status, view_status).system_health
    IN  [status |-> StatusCodeOfHealth(system_health),
         body |-> IF route = "health" THEN <<[status |-> system_health]>> ELSE <<>>]

\* a health route called while each of the two queries succeeds or fails
FnHealth ==
    /\ fn.phase = "input"
    /\ \E route \in HealthRoutes, agg_status \in BOOLEAN, view_status \in BOOLEAN :
          fn' = [phase |-> "health", route |-> route, agg_status |-> agg_status,
                 view_status |-> view_status,
                 response |-> ServeHealth(route, agg_status, view_status)]
    /\ UNCHANGED <<events, views, procs, results, nextCorr, observed>>

\* ----------------------------------------------------------- balance listing
MaxRows == 3

\* the payload of a row of the view table: JSON that reads as a view, or not
ReadablePayload(view) == [readable |-> TRUE, view |-> view]
UnreadablePayload == [readable |-> FALSE, view |-> DefaultView]

\* the rows the view table can hold in its row i: the view of account i with
\* some balance, or a payload that cannot be read
RowPayloads(i) ==
    {ReadablePayload([DefaultView EXCEPT !.account_id = i, !.balance = b]) :
        b \in Balances}
    \cup {UnreadablePayload}

ViewTables ==
    UNION {{rows \in [1..n -> UNION {RowPayloads(i) : i \in 1..MaxRows}] :
               \A i \in 1..n : rows[i] \in RowPayloads(i)} : n \in 0..MaxRows}

\* filter_map over serde_json::from_value: the views that can be read, in the
\* order of the rows
RECURSIVE ReadableViews(_)
ReadableViews(rows) ==
    IF rows = <<>> THEN <<>>
    ELSE IF Head(rows).readable
         THEN <<Head(rows).view>> \o ReadableViews(Tail(rows))
         ELSE ReadableViews(Tail(rows))

\* a view put into a list sorted by balance, behind the views whose balance
\* is not greater
RECURSIVE InsertByBalance(_, _)
InsertByBalance(view, sorted) ==
    IF sorted = <<>> THEN <<view>>
    ELSE IF Head(sorted).balance <= view.balance
         THEN <<Head(sorted)>> \o InsertByBalance(view, Tail(sorted))
         ELSE <<view>> \o sorted

\* Itertools::sorted_by_key(|view| view.balance): ascending and stable
RECURSIVE SortedByBalance(_)
SortedByBalance(list) ==
    IF list = <<>> THEN <<>>
    ELSE InsertByBalance(list[Len(list)],
                         SortedByBalance(SubSeq(list, 1, Len(list) - 1)))

\* Iterator::rev
Rev(list) == [i \in 1..Len(list) |-> list[Len(list) + 1 - i]]

\* mutant: the sorted views are not reversed
ServeAllByBalance_Ascending(rows) ==
    [status |-> 200, body |-> SortedByBalance(ReadableViews(rows))]

\* serve_all_by_balance, on the rows the select returned
ServeAllByBalance(rows) ==
    [status |-> 200, body |-> Rev(SortedByBalance(ReadableViews(rows)))]

\* the balance listing called on a drawn view table
FnList ==
    /\ fn.phase = "input"
    /\ \E rows \in ViewTables :
          fn' = [phase |-> "listed", rows |-> rows,
                 response |-> ServeAllByBalance(rows)]
    /\ UNCHANGED <<events, views, procs, results, nextCorr, observed>>

NextFn == FnHandle \/ FnApply \/ FnRespond \/ FnCreate \/ FnHealth \/ FnList

SpecFn == InitFn /\ [][NextFn]_vars

\* ------------------------------------------------------------------ helpers
IsDrawdown(command) == command.type \in {"WithdrawCash", "DisburseCheck"}

Overdraws(state, command) ==
    /\ state.tag = "Active"
    /\ IsDrawdown(command)
    /\ state.balance - command.amount < 0

\* the executions whose events are in the stream of their account
Committed(id) == {events[id][i].metadata : i \in 1..Len(events[id])}

\* ------------------------------------------------------------------- claims

\* C1: in every reachable state, the balance of an Active account (the fold of
\* its committed events) is not below zero, for every signed amount the
\* commands admit.
C1_BalanceNeverNegative ==
    \A id \in AccountIds :
        Replay(events[id]).tag = "Active" => Replay(events[id]).balance >= 0

\* C2: handle on an Active account and a WithdrawCash or DisburseCheck with
\* balance - amount < 0 returns InsufficientFunds(account_id, amount) and no
\* event, whichever services it is given.
C2_OverdrawRejected ==
    (fn.phase = "handled" /\ Overdraws(fn.state, fn.command)) =>
        /\ ~fn.out.ok
        /\ fn.out.error = InsufficientFunds(fn.state.account_id, fn.command.amount)
        /\ fn.out.events = <<>>

C2_Witness ==
    /\ fn.phase = "handled"
    /\ Overdraws(fn.state, fn.command)
    /\ fn.services = "HappyPath"
    /\ fn.state.balance = 0
    /\ fn.command = DisburseCheck(7, 1)
    /\ fn.out.error = InsufficientFunds(1, 1)

Finished(c) == results[c].outcome.kind # "Pending"

\* the slot of the stream an execution that loaded version s writes to is s + 1
SlotHolder(id, s) == events[id][s + 1].metadata

\* C3: of the executions that loaded the same version of an account and passed
\* handle, the one whose event is in the stream is the only one; an execution
\* that returned without its event in the stream got AggregateConflict (or the
\* store's failure), its slot holds the winner's event, and none of its events
\* is in the stream.
C3_LoserGetsConflict ==
    /\ \A c \in 1..MaxCmds :
          (Finished(c) /\ results[c].outcome.kind # "User") =>
             LET id == results[c].id
                 s == results[c].current_sequence
             IN  IF results[c].outcome.kind = "Ok"
                 THEN /\ Len(events[id]) > s
                      /\ SlotHolder(id, s) = c
                 ELSE /\ c \notin Committed(id)
                      /\ results[c].outcome.kind \in
                            {"AggregateConflict", "DatabaseConnection"}
                      /\ results[c].outcome.kind = "AggregateConflict" =>
                            (Len(events[id]) > s /\ SlotHolder(id, s) # c)
    /\ \A p \in Procs :
          procs[p].pc \in {"dispatch", "view_save"} =>
             /\ Len(events[procs[p].id]) > procs[p].current_sequence
             /\ SlotHolder(procs[p].id, procs[p].current_sequence) = procs[p].corr
    /\ \A id \in AccountIds : \A i, j \in 1..Len(events[id]) :
          events[id][i].metadata = events[id][j].metadata => i = j

\* two executions loaded version 1 of account 1; one committed and returned,
\* the other returned AggregateConflict
C3_Witness ==
    \E c1, c2 \in 1..MaxCmds :
        /\ c1 # c2
        /\ results[c1].id = 1 /\ results[c2].id = 1
        /\ results[c1].current_sequence = 1 /\ results[c2].current_sequence = 1
        /\ results[c1].outcome.kind = "Ok"
        /\ results[c2].outcome.kind = "AggregateConflict"
        /\ Len(events[1]) = 2

AllPositive(id) ==
    \A i \in 1..Len(events[id]) :
        events[id][i].payload.type \in TransactionalEvents =>
            events[id][i].payload.amount > 0

\* C4: while every committed amount is strictly positive, the fold of the
\* committed stream has a balance >= 0 under every interleaving of load,
\* handle and commit; two withdrawals that were each affordable at the same
\* loaded version but jointly exceed the balance never both commit.
C4_NoOverdraftUnderRace ==
    \A id \in AccountIds :
        (AllPositive(id) /\ Replay(events[id]).tag = "Active") =>
            Replay(events[id]).balance >= 0

\* a withdrawal passed handle against balance 1 and waits for its commit while
\* another withdrawal of 1, handled on the same version, has been committed
C4_Witness ==
    \E p \in Procs :
        /\ procs[p].pc = "commit"
        /\ procs[p].id = 1
        /\ procs[p].command = WithdrawCash(1, "abc_123")
        /\ procs[p].aggregate.balance = 1
        /\ AllPositive(1)
        /\ Len(events[1]) = procs[p].current_sequence + 1
        /\ events[1][Len(events[1])].payload = CheckWithdrawal(7, 1)
        /\ Replay(events[1]).balance = 0

\* the (state, command) pairs the state/command table does not list as emitting
NotListed(state, command) ==
    \/ state.tag = "Quiescent" /\ command.type # "OpenAccount"
    \/ state.tag = "Active" /\ command.type = "OpenAccount"
    \/ state.tag = "Closed"

\* C5: for Quiescent with a command other than OpenAccount, Active with
\* OpenAccount, and Closed with any command, handle returns RejectedCommand and
\* no event.
C5_UnlistedPairsRejected ==
    (fn.phase = "handled" /\ NotListed(fn.state, fn.command)) =>
        /\ ~fn.out.ok
        /\ fn.out.error.kind = "RejectedCommand"
        /\ fn.out.events = <<>>

C5_Witness ==
    /\ fn.phase = "handled"
    /\ fn.state.tag = "Closed"
    /\ fn.command.type = "DepositAmount"
    /\ fn.out.error.kind = "RejectedCommand"

\* C6: the sequence numbers of a committed stream are 1, 2, ..., n in stream
\* order; n is the number of executions that committed, and an execution that
\* was rejected, lost the race or hit a store failure holds no sequence number.
C6_SequencesGapless ==
    \A id \in AccountIds :
        /\ \A i \in 1..Len(events[id]) : events[id][i].sequence = i
        /\ Len(events[id]) = Cardinality(Committed(id))
        /\ \A c \in 1..MaxCmds :
              (results[c].id = id /\ results[c].outcome.kind \in
                  {"User", "AggregateConflict", "DatabaseConnection"}) =>
                  c \notin Committed(id)

\* two events committed to account 1 while one execution was rejected and
\* another lost the race
C6_Witness ==
    /\ Len(events[1]) = 2
    /\ events[1][2].sequence = 2
    /\ \E c1, c2 \in 1..MaxCmds :
          /\ results[c1].id = 1 /\ results[c1].outcome.kind = "User"
          /\ results[c2].id = 1 /\ results[c2].outcome.kind = "AggregateConflict"

Prefix(seq, k) == SubSeq(seq, 1, k)

RECURSIVE LedgerSum(_)
LedgerSum(ledger) ==
    IF ledger = <<>> THEN 0 ELSE Head(ledger).amount + LedgerSum(Tail(ledger))

\* C8: in every stored view, and in every view an execution is about to save,
\* balance equals the sum of the signed amounts of the ledger entries; also
\* after view updates were dropped.
C8_ViewBalanceIsLedgerSum ==
    /\ \A id \in AccountIds :
          views[id].payload.balance = LedgerSum(views[id].payload.ledger)
    /\ \A p \in Procs :
          procs[p].pc = "view_save" =>
             LET updated == UpdateAll(procs[p].view, procs[p].batch)
             IN  updated.balance = LedgerSum(updated.ledger)

TransactionalCount(id) ==
    Cardinality({i \in 1..Len(events[id]) :
                    events[id][i].payload.type \in TransactionalEvents})

\* no execution is in progress, three transactional events are committed to
\* account 1, and its stored view holds a deposit and a withdrawal but not the
\* third entry: an update was dropped
C8_Witness ==
    /\ \A p \in Procs : procs[p].pc = "idle"
    /\ TransactionalCount(1) = 3
    /\ Len(views[1].payload.ledger) = 2
    /\ \E i, j \in 1..2 : /\ views[1].payload.ledger[i].amount = 1
                          /\ views[1].payload.ledger[j].amount = -1

\* C9: a view and an aggregate that have folded the same committed events (a
\* prefix of the stream, the whole stream for a rebuild from the empty view)
\* have the same balance whenever the aggregate is Active.
C9_ViewBalanceIsAggregateBalance ==
    \A id \in AccountIds : \A k \in 0..Len(events[id]) :
        Replay(Prefix(events[id], k)).tag = "Active" =>
            UpdateAll(DefaultView, Prefix(events[id], k)).balance
              = Replay(Prefix(events[id], k)).balance

\* account 1 after a deposit, a check and an ATM withdrawal; the stored view
\* has seen all of them
C9_Witness ==
    /\ Len(events[1]) = 4
    /\ \E i, j \in 2..4 : /\ events[1][i].payload.type = "CheckWithdrawal"
                          /\ events[1][j].payload.type = "CashWithdrawal"
    /\ views[1].payload = UpdateAll(DefaultView, events[1])
    /\ Replay(events[1]).balance = views[1].payload.balance

\* C10: the stored view of an account is the fold of update over the committed
\* events of that account, each once and in commit order (over a prefix of
\* the stream while the latest updates are still on their way), also when
\* command executions on the account overlap.
C10_ViewIsFoldInCommitOrder ==
    \A id \in AccountIds :
        \E k \in 0..Len(events[id]) :
            views[id].payload = UpdateAll(DefaultView, Prefix(events[id], k))

\* the events execution c has in the stream of account id, in stream order
BatchOf(id, c) == SelectSeq(events[id], LAMBDA e : e.metadata = c)

\* every registered query, once and in registration order, with the batch
ObservedBatch(id, c) ==
    <<Dispatched("EventTracingQuery", id, BatchOf(id, c)),
      Dispatched("AccountQuery", id, BatchOf(id, c))>>

\* C11: an execution that returned success has committed a batch of events,
\* and before it returned the tracing query and then the account view query
\* were each dispatched exactly once with that whole batch in commit order; an
\* execution whose commit succeeded and that waits for the dispatch has not
\* been observed yet, one that is saving the view has been observed by both.
C11_ObserversGetCommittedBatch ==
    /\ \A c \in 1..MaxCmds :
          (Finished(c) /\ results[c].outcome.kind = "Ok") =>
             /\ BatchOf(results[c].id, c) # <<>>
             /\ observed[c] = ObservedBatch(results[c].id, c)
    /\ \A p \in Procs :
          /\ procs[p].pc = "dispatch" => observed[procs[p].corr] = <<>>
          /\ procs[p].pc = "view_save" =>
                /\ BatchOf(procs[p].id, procs[p].corr) = procs[p].batch
                /\ observed[procs[p].corr] = ObservedBatch(procs[p].id, procs[p].corr)

\* the deposit that followed the opening of account 1 has returned success
\* and both queries were dispatched with its event of sequence 2
C11_Witness ==
    /\ results[2].outcome.kind = "Ok"
    /\ results[2].id = 1
    /\ Len(events[1]) >= 2
    /\ events[1][2].metadata = 2
    /\ events[1][2].payload = BalanceDeposited(1)
    /\ Len(observed[2]) = 2
    /\ observed[2][1].query = "EventTracingQuery"
    /\ observed[2][2].query = "AccountQuery"
    /\ observed[2][2].events = <<events[1][2]>>

\* C12: an execution whose events are in the stream and that has returned,
\* returned success and the tracing query was dispatched with its batch,
\* whether or not the account view query could save the view: the failure of
\* the view repository neither removes the events nor reaches the caller.
C12_ViewFailureIsCaught ==
    \A c \in 1..MaxCmds :
        (Finished(c) /\ c \in Committed(results[c].id)) =>
            /\ results[c].outcome = BankOk
            /\ \E q \in 1..Len(observed[c]) :
                  observed[c][q] = Dispatched("EventTracingQuery", results[c].id,
                                              BatchOf(results[c].id, c))

\* the opening of account 1 is committed and has returned success, nothing is
\* in progress, and no view row was written: saving the view failed
C12_Witness ==
    /\ \A p \in Procs : procs[p].pc = "idle"
    /\ Len(events[1]) = 1
    /\ events[1][1].metadata = 1
    /\ results[1].outcome = BankOk
    /\ results[1].id = 1
    /\ views[1] = NoRow
    /\ observed[1][1].query = "EventTracingQuery"

\* the dispatches of the account view query made for account id
ViewDispatches(id) ==
    {c \in 1..MaxCmds : \E q \in 1..Len(observed[c]) :
        /\ observed[c][q].query = "AccountQuery"
        /\ observed[c][q].aggregate_id = Pretty(id)}

\* C13: a query is dispatched only with events that are in the stream; an
\* execution that was rejected by handle, lost the race of the commit or met
\* a failure of the event store has no event in the stream and no query was
\* dispatched for it; the view row of an account is written at most once per
\* dispatch of the account view query; the failure of the store is answered
\* with status 500.
C13_ObserversOnlySeeCommitted ==
    /\ \A c \in 1..MaxCmds : \A q \in 1..Len(observed[c]) :
          /\ observed[c][q].events # <<>>
          /\ \A i \in 1..Len(observed[c][q].events) :
                LET e == observed[c][q].events[i]
                IN  \E id \in AccountIds :
                       /\ Pretty(id) = observed[c][q].aggregate_id
                       /\ e.sequence <= Len(events[id])
                       /\ events[id][e.sequence] = e
    /\ \A c \in 1..MaxCmds :
          (Finished(c) /\ results[c].outcome.kind # "Ok") =>
             /\ observed[c] = <<>>
             /\ c \notin Committed(results[c].id)
    /\ \A id \in AccountIds : views[id].version <= Cardinality(ViewDispatches(id))
    /\ \A c \in 1..MaxCmds :
          results[c].outcome.kind = "DatabaseConnection" =>
             StatusCode(HttpErrorFrom(results[c].outcome)) = 500

\* a deposit to the unopened account 1 was rejected, of two openings of
\* account 1 one lost the race, and the opening of account 2 met a failure of
\* the store: account 2 has no event and no view row
C13_Witness ==
    /\ \E c \in 1..MaxCmds : /\ results[c].outcome.kind = "User"
                              /\ results[c].id = 1
    /\ \E c \in 1..MaxCmds : /\ results[c].outcome.kind = "AggregateConflict"
                              /\ results[c].id = 1
    /\ \E c \in 1..MaxCmds : /\ results[c].outcome.kind = "DatabaseConnection"
                              /\ results[c].id = 2
                              /\ StatusCode(HttpErrorFrom(results[c].outcome)) = 500
    /\ Len(events[1]) = 1
    /\ events[2] = <<>>
    /\ views[2] = NoRow

\* C14: when handle is given an Active account and a WithdrawCash or
\* DisburseCheck that would overdraw it, neither validate_atm_withdrawal nor
\* validate_check has been called when handle returns.
C14_FundsCheckBeforeService ==
    (fn.phase = "handled" /\ Overdraws(fn.state, fn.command)) => ~fn.out.called

\* an ATM withdrawal of 1 from balance 0, with services that would refuse it:
\* the answer is InsufficientFunds and the service was not asked
C14_Witness ==
    /\ fn.phase = "handled"
    /\ fn.state.tag = "Active"
    /\ fn.state.balance = 0
    /\ fn.command = WithdrawCash(1, "abc_123")
    /\ fn.services = "Failing"
    /\ ~fn.out.called
    /\ fn.out.error.kind = "InsufficientFunds"

\* the error the failing business-rule service answers a command with
ServiceErrorFor(state, command) ==
    IF command.type = "WithdrawCash"
    THEN ValidateAtmWithdrawal("Failing", command.atm_id, command.amount).error
    ELSE ValidateCheck("Failing", state.account_id, command.check_nr).error

\* C15: when the funds check of a WithdrawCash or DisburseCheck passes and
\* the business-rule service answers with an error, handle returns that error
\* as BankAccountError::BankServiceError (Atm for the ATM validation,
\* InvalidCheck for the check validation) and no event, so that applying its
\* events leaves the account state and balance as they were.
C15_ServiceErrorRejects ==
    (/\ fn.phase = "handled"
     /\ fn.state.tag = "Active"
     /\ IsDrawdown(fn.command)
     /\ ~Overdraws(fn.state, fn.command)
     /\ fn.services = "Failing") =>
        /\ ~fn.out.ok
        /\ fn.out.called
        /\ fn.out.events = <<>>
        /\ fn.out.error = BankServiceErrorOf(ServiceErrorFor(fn.state, fn.command))
        /\ fn.out.error.source.kind =
              (IF fn.command.type = "WithdrawCash" THEN "Atm" ELSE "InvalidCheck")
        /\ ApplyAll(fn.state, fn.out.events) = fn.state

\* check 7 over 1 from balance 1 with a service that refuses the check
C15_Witness ==
    /\ fn.phase = "handled"
    /\ fn.state.tag = "Active"
    /\ fn.state.balance = 1
    /\ fn.command = DisburseCheck(7, 1)
    /\ fn.services = "Failing"
    /\ fn.out.called
    /\ fn.out.error = BankServiceErrorOf(InvalidCheck(1, 7))
    /\ fn.out.events = <<>>

\* C16: the step in which an execution returns an error of handle
\* (RejectedCommand, InsufficientFunds or a service error) leaves the event
\* stream of every account, the aggregate state replayed from it, the stored
\* views (balance, ledger, written_checks) and the dispatches to the queries
\* as they were.
C16_RejectedCommandHasNoEffect ==
    [][\A c \in 1..MaxCmds :
          (results[c].outcome.kind = "Pending" /\ results'[c].outcome.kind = "User") =>
             /\ events' = events
             /\ \A id \in AccountIds : Replay(events'[id]) = Replay(events[id])
             /\ views' = views
             /\ observed' = observed]_vars

\* account 1 was opened and its view saved; an ATM withdrawal of 1 from
\* balance 0 was rejected with InsufficientFunds: one event, balance 0, no
\* ledger entry
C16_Witness ==
    /\ \A p \in Procs : procs[p].pc = "idle"
    /\ results[2].outcome.kind = "User"
    /\ results[2].outcome.source = InsufficientFunds(1, 1)
    /\ results[2].id = 1
    /\ Len(events[1]) = 1
    /\ Replay(events[1]).balance = 0
    /\ views[1].version = 1
    /\ views[1].payload.balance = 0
    /\ views[1].payload.ledger = <<>>

\* C17: in every stream the event of sequence 1 is an AccountOpened and no
\* other event is one, also when two OpenAccount commands for the same id
\* run concurrently; an OpenAccount that passed handle was handled on the
\* empty stream, and one that was answered "cannot be reopened" found the
\* account opened.
C17_OneAccountOpenedAtSequenceOne ==
    /\ \A id \in AccountIds : \A i \in 1..Len(events[id]) :
          /\ events[id][i].sequence = i
          /\ (events[id][i].payload.type = "AccountOpened") <=> (i = 1)
    /\ \A p \in Procs :
          (procs[p].pc # "idle" /\ procs[p].command.type = "OpenAccount") =>
             procs[p].current_sequence = 0
    /\ \A c \in 1..MaxCmds :
          (/\ results[c].outcome.kind = "User"
           /\ results[c].outcome.source =
                  RejectedCommand("Active account cannot be reopened")) =>
             /\ results[c].current_sequence >= 1
             /\ events[results[c].id][1].payload.type = "AccountOpened"

\* two OpenAccount for account 1 were handled on the empty stream: one is
\* committed, the other got the conflict; a third found the account Active
\* and was rejected; the stream holds the one AccountOpened
C17_Witness ==
    /\ \E c1, c2, c3 \in 1..MaxCmds :
          /\ results[c1].id = 1 /\ results[c2].id = 1 /\ results[c3].id = 1
          /\ results[c1].outcome.kind = "Ok"
          /\ results[c1].current_sequence = 0
          /\ results[c2].outcome.kind = "AggregateConflict"
          /\ results[c2].current_sequence = 0
          /\ results[c3].outcome.kind = "User"
          /\ results[c3].outcome.source =
                RejectedCommand("Active account cannot be reopened")
    /\ Len(events[1]) = 1
    /\ events[1][1].payload.type = "AccountOpened"

\* C18: once the OpenAccount of a fresh account id has returned success and
\* nothing else is committed to the account, its stream holds one record:
\* aggregate_type "account", the aggregate id, sequence 1, event_type
\* "account_opened", event_version "1.0" and the payload with the command's
\* account_id, user_name, mailing_address and email; and the view record has
\* the aggregate id as view_id, version 1, the account_id, balance 0, an
\* empty ledger and no written checks.
C18_OpenAccountPersistsEventAndView ==
    \A c \in 1..MaxCmds :
        (/\ results[c].outcome.kind = "Ok"
         /\ results[c].current_sequence = 0
         /\ Len(events[results[c].id]) = 1) =>
            LET id == results[c].id
                command == OpenAccount(id)
            IN  /\ SerializedEvent(events[id][1]) =
                      [aggregate_type |-> "account",
                       aggregate_id |-> IdOfAccountId(id).pretty,
                       sequence |-> 1,
                       event_type |-> "account_opened",
                       event_version |-> "1.0",
                       payload |-> AccountOpened(command.account_id, command.user_name,
                                                 command.mailing_address, command.email),
                       metadata |-> c]
                /\ ViewRecord(id) =
                      [view_id |-> IdOfAccountId(id).pretty,
                       version |-> 1,
                       payload |-> [account_id |-> id, balance |-> 0,
                                    written_checks |-> <<>>, ledger |-> <<>>]]

\* the first command, OpenAccount for account 1, has returned success;
\* nothing is in progress and nothing else was committed to the account
C18_Witness ==
    /\ \A p \in Procs : procs[p].pc = "idle"
    /\ results[1].outcome.kind = "Ok"
    /\ results[1].id = 1
    /\ results[1].current_sequence = 0
    /\ Len(events[1]) = 1
    /\ views[1].version = 1
    /\ views[1].payload.account_id = 1

\* the ledger entry the view is to hold for a transactional event
ExpectedEntry(event) ==
    CASE event.type = "BalanceDeposited" ->
            [description |-> "deposit", amount |-> event.amount]
      [] event.type = "CashWithdrawal" ->
            [description |-> "ATM withdrawal", amount |-> 0 - event.amount]
      [] event.type = "CheckWithdrawal" ->
            [description |-> "Check " \o ToString(event.check_nr),
             amount |-> 0 - event.amount]

\* one entry per transactional event of the envelopes, in their order
RECURSIVE ExpectedLedger(_)
ExpectedLedger(envelopes) ==
    IF envelopes = <<>> THEN <<>>
    ELSE IF Head(envelopes).payload.type \in TransactionalEvents
         THEN <<ExpectedEntry(Head(envelopes).payload)>> \o ExpectedLedger(Tail(envelopes))
         ELSE ExpectedLedger(Tail(envelopes))

\* deposits added, withdrawals of either kind subtracted
RECURSIVE ExpectedBalance(_)
ExpectedBalance(envelopes) ==
    IF envelopes = <<>> THEN 0
    ELSE (CASE Head(envelopes).payload.type = "BalanceDeposited" ->
                  Head(envelopes).payload.amount
            [] Head(envelopes).payload.type \in {"CashWithdrawal", "CheckWithdrawal"} ->
                  0 - Head(envelopes).payload.amount
            [] OTHER -> 0)
         + ExpectedBalance(Tail(envelopes))

RECURSIVE CheckNumbers(_)
CheckNumbers(envelopes) ==
    IF envelopes = <<>> THEN <<>>
    ELSE IF Head(envelopes).payload.type = "CheckWithdrawal"
         THEN <<Head(envelopes).payload.check_nr>> \o CheckNumbers(Tail(envelopes))
         ELSE CheckNumbers(Tail(envelopes))

C29_ClosedIsTerminal ==
    fn.phase \in {"handled", "applied"} /\ fn.state.tag = "Closed" =>
        /\ fn.phase = "handled" =>
              /\ ~fn.out.ok
              /\ fn.out.error.kind = "RejectedCommand"
              /\ fn.out.events = <<>>
        /\ fn.phase = "applied" =>
              /\ fn.next = fn.state
              /\ fn.next.tag = "Closed"

\* a deposit event applied to the Closed account of user 1
C29_Witness ==
    /\ fn.phase = "applied"
    /\ fn.state = ClosedBankAccount(1, UserNameOf(1), Address0, Email0)
    /\ fn.event = BalanceDeposited(1)
    /\ fn.next = ClosedBankAccount(1, UserNameOf(1), Address0, Email0)

\* C30: update does not detect a repeated event: applied twice with the same
\* transactional event, to the view an execution has loaded, it adds the
\* ledger entry twice and moves the balance twice by the same amount. In the
\* store that checks versions every committed batch is folded into the row at
\* most once, so no stored ledger is longer than the count of the committed
\* transactional events.
C30_FoldCountsRepeatedEvent ==
    /\ \A p \in Procs :
          procs[p].pc = "view_save" =>
             \A i \in 1..Len(procs[p].batch) :
                procs[p].batch[i].payload.type \in TransactionalEvents =>
                   LET view == procs[p].view
                       once == ViewUpdate(view, procs[p].batch[i])
                       twice == ViewUpdate(once, procs[p].batch[i])
                       n == Len(view.ledger)
                   IN  /\ Len(once.ledger) = n + 1
                       /\ Len(twice.ledger) = n + 2
                       /\ twice.ledger[n + 2] = twice.ledger[n + 1]
                       /\ SubSeq(twice.ledger, 1, n) = view.ledger
                       /\ twice.balance - once.balance = once.balance - view.balance
                       /\ twice # once
    /\ \A id \in AccountIds :
          Len(views[id].payload.ledger) <= TransactionalCount(id)

\* an execution is about to fold a deposit of 1 into a view whose ledger ends
\* with a deposit of 1
C30_Witness ==
    \E p \in Procs :
        /\ procs[p].pc = "view_save"
        /\ Len(procs[p].batch) = 1
        /\ procs[p].batch[1].payload = BalanceDeposited(1)
        /\ procs[p].view.ledger = <<LedgerEntry("deposit", 1)>>
        /\ ViewUpdate(ViewUpdate(procs[p].view, procs[p].batch[1]),
                      procs[p].batch[1]).balance = 3

C21_AccountsAreIndependent ==
    [][ /\ \A id \in AccountIds :
              (events'[id] # events[id] \/ views'[id] # views[id]) =>
                  \E p \in Procs :
                      /\ procs[p].id = id
                      /\ procs[p].pc \in {"commit", "view_save"}
                      /\ procs'[p] # procs[p]
                      /\ \A q \in Procs \ {p} : procs'[q] = procs[q]
                      /\ \A other \in AccountIds \ {id} :
                            /\ events'[other] = events[other]
                            /\ views'[other] = views[other]
                            /\ Replay(events'[other]) = Replay(events[other])
        /\ \A p \in Procs :
              (/\ procs[p].pc = "commit"
               /\ procs'[p] # procs[p]
               /\ Len(events[procs[p].id]) = procs[p].current_sequence) =>
                  /\ results'[procs[p].corr].outcome.kind # "AggregateConflict"
                  /\ procs'[p].pc = "dispatch" =>
                        Len(events'[procs[p].id]) > procs[p].current_sequence
      ]_vars

\* two executions that overlapped, one on each account and both from version
\* 0, have both committed and wait for their dispatch
C21_Witness ==
    /\ procs[1].pc = "dispatch" /\ procs[2].pc = "dispatch"
    /\ procs[1].id # procs[2].id
    /\ procs[1].current_sequence = 0 /\ procs[2].current_sequence = 0
    /\ Len(events[1]) = 1 /\ Len(events[2]) = 1

\* C26: a commit that finds its slot of the stream taken answers the caller
\* with AggregateConflict, an error of its own kind, and ends the execution:
\* the command was handled once, on the state loaded at the start, the commit
\* is attempted once and is not followed by another, the answer given to the
\* caller is never changed, and no event of an execution that got
\* AggregateConflict is in the stream, then or later.
C26_ConflictIsSurfacedNotRetried ==
    /\ [](\A c \in 1..MaxCmds :
            results[c].outcome.kind = "AggregateConflict" =>
               /\ results[c].outcome = BankErrorFrom(AggregateConflictError)
               /\ c \notin Committed(results[c].id)
               /\ \A p \in Procs : procs[p].corr # c)
    /\ [][ /\ \A c \in 1..MaxCmds : Finished(c) => results'[c] = results[c]
           /\ \A p \in Procs :
                 (procs[p].pc = "commit" /\ procs'[p] # procs[p]) =>
                    /\ procs'[p].pc \in {"dispatch", "idle"}
                    /\ procs[p].aggregate = Replay(Prefix(events[procs[p].id],
                                                          procs[p].current_sequence))
                    /\ Len(events[procs[p].id]) # procs[p].current_sequence =>
                          /\ procs'[p] = Idle
                          /\ events' = events
                          /\ results'[procs[p].corr].outcome.kind \in
                                {"AggregateConflict", "DatabaseConnection"}
          ]_vars

\* an execution on account 1 got AggregateConflict, the account has taken two
\* more events since, none of them from that execution, and nothing is in
\* progress
C26_Witness ==
    \E c \in 1..MaxCmds :
        /\ results[c].outcome.kind = "AggregateConflict"
        /\ results[c].id = 1
        /\ results[c].current_sequence = 1
        /\ Len(events[1]) = 3
        /\ c \notin Committed(1)
        /\ \A p \in Procs : procs[p].pc = "idle"

TechnicalKinds == {"DatabaseConnection", "Deserialization", "Unexpected"}

\* the status codes the technical failures are answered with
TechnicalStatus ==
    {IntoResponse(BankErrorFrom(error)).status :
        error \in {e \in AggregateErrors : BankErrorFrom(e).kind \in TechnicalKinds}}

\* C22: the response to an error of a command execution has a 4xx status for
\* a business-rule or rejected-command error, a status that no technical
\* failure is answered with for AggregateConflict, and a 5xx status for
\* DatabaseConnection, Deserialization and Unexpected.
C22_ErrorsMappedByClass ==
    fn.phase = "responded" =>
        LET kind == BankErrorFrom(fn.error).kind
            status == fn.response.status
        IN  /\ kind = "User" => status \in 400..499
            /\ kind = "AggregateConflict" => status \notin TechnicalStatus
            /\ kind \in TechnicalKinds => status \in 500..599

\* C23: the body of the response to a technical failure is the same for every
\* failure of that class, whatever its source error.
C23_TechnicalBodyIsGeneric ==
    (fn.phase = "responded" /\ BankErrorFrom(fn.error).kind \in TechnicalKinds) =>
        \A other \in AggregateErrors :
            other.kind = fn.error.kind =>
                Respond(BankErrorFrom(other), "").body = fn.response.body

\* C24: a command other than OpenAccount for an account whose stream is empty
\* emits no event and is answered with 404.
C24_UnopenedAccountIsNotFound ==
    (/\ fn.phase = "handled"
     /\ fn.state = Quiescent
     /\ fn.command.type # "OpenAccount") =>
        /\ ~fn.out.ok
        /\ fn.out.events = <<>>
        /\ Respond(BankErrorFrom(AggregateUserError(fn.out.error)), "").status = 404

\* C25: a create-account request with an invalid email is answered with 400
\* and nothing is executed; a valid one is answered with 200 and the account
\* id that was generated, after OpenAccount was executed for it.
C25_InvalidApplicationIsBadRequest ==
    fn.phase = "created" =>
        IF ~ValidEmail(fn.account_application.email)
        THEN /\ fn.out.response.status = 400
             /\ ~fn.out.executed
             /\ fn.out.events = <<>>
        ELSE /\ fn.out.response = [status |-> 200, body |-> fn.num]
             /\ fn.out.executed
             /\ fn.out.command.type = "OpenAccount"
             /\ fn.out.command.account_id = fn.num

\* the answer a command gets from handle on the stream as it is now
RejectionOnCurrentState(id, command) ==
    {BankErrorFrom(AggregateUserError(Handle(Replay(events[id]), command, services).error)) :
        services \in {m \in ServiceModes : ~Handle(Replay(events[id]), command, m).ok}}

\* C27: a command that was answered with AggregateConflict and is sent again
\* is loaded and handled on the stream as it is now, which has grown since the
\* first attempt: it is either rejected by handle on that state, with a
\* business-rule error and never a conflict, or goes to its commit with the
\* events decided on that state; and when no other execution has committed to
\* the account between this load and the commit, the commit appends the
\* events of the retry and answers no conflict.
C27_RetryAfterConflict ==
    [][ \A p \in Procs :
          /\ (/\ procs[p].pc = "conflicted"
              /\ procs'[p] # procs[p]
              /\ nextCorr' # nextCorr) =>
                LET id == procs[p].id
                IN  \/ /\ procs'[p].pc = "commit"
                       /\ procs'[p].id = id
                       /\ procs'[p].command = procs[p].command
                       /\ procs'[p].retry_of = procs[p].corr
                       /\ procs'[p].aggregate = Replay(events[id])
                       /\ procs'[p].current_sequence = Len(events[id])
                       /\ procs'[p].current_sequence > procs[p].current_sequence
                       /\ \E services \in ServiceModes :
                             /\ Handle(Replay(events[id]), procs[p].command, services).ok
                             /\ procs'[p].batch =
                                   Handle(Replay(events[id]), procs[p].command,
                                          services).events
                       /\ results' = results
                    \/ /\ procs'[p] = Idle
                       /\ results'[nextCorr].id = id
                       /\ results'[nextCorr].outcome.kind = "User"
                       /\ results'[nextCorr].outcome \in
                             RejectionOnCurrentState(id, procs[p].command)
                       /\ events' = events
          /\ (/\ procs[p].pc = "commit"
              /\ procs[p].retry_of # 0
              /\ procs'[p] # procs[p]
              /\ Len(events[procs[p].id]) = procs[p].current_sequence) =>
                /\ procs'[p].pc = "dispatch"
                /\ results'[procs[p].corr] = Pending
                /\ events'[procs[p].id] = events[procs[p].id] \o procs'[p].batch
                /\ Payloads(procs'[p].batch) = procs[p].batch
      ]_vars

\* a withdrawal of 1 that lost the race for version 2 of account 1 was sent
\* again, handled on version 3 and committed as the fourth event
C27_Witness ==
    \E p \in Procs :
        /\ procs[p].pc = "dispatch"
        /\ procs[p].retry_of # 0
        /\ results[procs[p].retry_of].outcome.kind = "AggregateConflict"
        /\ results[procs[p].retry_of].current_sequence = 2
        /\ procs[p].command = WithdrawCash(1, "abc_123")
        /\ procs[p].current_sequence = 3
        /\ Len(events[1]) = 4
        /\ events[1][4].metadata = procs[p].corr

\* the one event a drawdown command is answered with when it is accepted
DrawdownEvent(command) ==
    IF command.type = "WithdrawCash"
    THEN CashWithdrawal(command.amount)
    ELSE CheckWithdrawal(command.check_nr, command.amount)

\* C33: with the services that approve, handle on an Active account accepts
\* a WithdrawCash or DisburseCheck exactly when balance - amount >= 0, and
\* then emits the one event CashWithdrawal(amount) or
\* CheckWithdrawal(check_nr, amount) with the amount of the command; a
\* withdrawal of the whole balance is accepted and leaves balance 0 after
\* apply.
C33_DrawdownAcceptedIffCovered ==
    (/\ fn.phase = "handled"
     /\ fn.state.tag = "Active"
     /\ IsDrawdown(fn.command)
     /\ fn.services = "HappyPath") =>
        /\ fn.out.ok <=> fn.state.balance - fn.command.amount >= 0
        /\ fn.out.ok =>
              /\ fn.out.events = <<DrawdownEvent(fn.command)>>
              /\ Apply(fn.state, fn.out.events[1]).balance =
                    fn.state.balance - fn.command.amount
        /\ fn.command.amount = fn.state.balance =>
              /\ fn.out.ok
              /\ Apply(fn.state, fn.out.events[1]).tag = "Active"
              /\ Apply(fn.state, fn.out.events[1]).balance = 0

\* a check over the whole balance of 1 is accepted
C33_Witness ==
    /\ fn.phase = "handled"
    /\ fn.services = "HappyPath"
    /\ fn.state.tag = "Active" /\ fn.state.balance = 1
    /\ fn.command = DisburseCheck(8, 1)
    /\ fn.out.ok
    /\ fn.out.events = <<CheckWithdrawal(8, 1)>>
    /\ Apply(fn.state, fn.out.events[1]).balance = 0

\* C34: apply on an Active account validates nothing: BalanceDeposited gives
\* balance + amount, CashWithdrawal and CheckWithdrawal give balance - amount,
\* the state stays Active with its other fields, also when the new balance is
\* negative; the replay of a stream that handle would not have produced
\* reaches a negative balance.
C34_ApplyDoesNotValidate ==
    /\ (fn.phase = "applied" /\ fn.state.tag = "Active") =>
          /\ fn.event.type = "BalanceDeposited" =>
                fn.next = [fn.state EXCEPT !.balance = @ + fn.event.amount]
          /\ fn.event.type \in {"CashWithdrawal", "CheckWithdrawal"} =>
                fn.next = [fn.state EXCEPT !.balance = @ - fn.event.amount]
          /\ fn.next.tag = "Active"
    /\ fn.phase = "applied" =>
          LET opened == AccountOpened(1, UserNameOf(1), Address0, Email0)
              replayed == ApplyAll(Quiescent, <<opened, fn.event>>)
          IN  (fn.event.type \in {"CashWithdrawal", "CheckWithdrawal"}
                  /\ fn.event.amount > 0) =>
                 /\ replayed.tag = "Active"
                 /\ replayed.balance = 0 - fn.event.amount
                 /\ replayed.balance < 0

\* a cash withdrawal of 1 applied to an Active account with balance 0
C34_Witness ==
    /\ fn.phase = "applied"
    /\ fn.state.tag = "Active" /\ fn.state.balance = 0
    /\ fn.event = CashWithdrawal(1)
    /\ fn.next.tag = "Active"
    /\ fn.next.balance = -1

\* C35: an event the state does not recognise changes nothing: in Quiescent
\* every event other than AccountOpened, in Active an AccountOpened, in Closed
\* every event leave the aggregate as it was.
C35_UnrecognisedEventIsNoOp ==
    (/\ fn.phase = "applied"
     /\ \/ fn.state.tag = "Quiescent" /\ fn.event.type # "AccountOpened"
        \/ fn.state.tag = "Active" /\ fn.event.type = "AccountOpened"
        \/ fn.state.tag = "Closed") =>
        /\ ~StateApply(fn.state, fn.event).some
        /\ fn.next = fn.state

\* the AccountOpened of another account applied to an Active account with
\* balance 1
C35_Witness ==
    /\ fn.phase = "applied"
    /\ fn.state = ActiveBankAccount(1, UserNameOf(1), 1, Address0, Email0)
    /\ fn.event = AccountOpened(2, UserNameOf(2), Address0, Email0)
    /\ fn.next = fn.state

\* the event a command is paired with, carrying the payload of the command
PairedEvent(command) ==
    CASE command.type = "OpenAccount" ->
            AccountOpened(command.account_id, command.user_name,
                          command.mailing_address, command.email)
      [] command.type = "DepositAmount" -> BalanceDeposited(command.amount)
      [] command.type = "WithdrawCash" -> CashWithdrawal(command.amount)
      [] command.type = "DisburseCheck" ->
            CheckWithdrawal(command.check_nr, command.amount)
      [] command.type = "ChangeMailingAddress" ->
            MailingAddressUpdated(command.new_address)
      [] command.type = "ChangeEmail" -> EmailUpdated(command.new_email)

\* C38: a command that handle accepted has exactly one event, the one paired
\* with the command and carrying its payload, a deposit of any amount
\* included; the commit gives it the sequence number after the loaded one, so
\* that the stream has one event per accepted command.
C38_OneEventPerAcceptedCommand ==
    /\ \A p \in Procs :
          /\ procs[p].pc = "commit" =>
                procs[p].batch = <<PairedEvent(procs[p].command)>>
          /\ procs[p].pc \in {"dispatch", "view_save"} =>
                /\ Len(procs[p].batch) = 1
                /\ procs[p].batch[1].payload = PairedEvent(procs[p].command)
                /\ procs[p].batch[1].sequence = procs[p].current_sequence + 1
                /\ Len(events[procs[p].id]) = procs[p].current_sequence + 1
    /\ \A id \in AccountIds :
          /\ Len(events[id]) = Cardinality(Committed(id))
          /\ \A i \in 1..Len(events[id]) : events[id][i].sequence = i

\* a deposit of MaxAmount + 1 was accepted and committed as the second event
\* of account 1
C38_Witness ==
    \E p \in Procs :
        /\ procs[p].pc = "dispatch"
        /\ procs[p].command = DepositAmount(MaxAmount + 1)
        /\ procs[p].batch[1].payload = BalanceDeposited(MaxAmount + 1)
        /\ Len(events[1]) = 2

\* C39: MailingAddressUpdated and EmailUpdated replace the one field of the
\* Active state and leave the balance and every other field as they were; in
\* the view they change nothing, and AccountOpened changes only account_id:
\* balance, ledger and written_checks stay as they were.
C39_NonTransactionalEventsKeepMoney ==
    \A p \in Procs :
        /\ (/\ procs[p].pc \in {"dispatch", "view_save"}
            /\ procs[p].command.type \in {"ChangeMailingAddress", "ChangeEmail"}) =>
              LET before == procs[p].aggregate
                  after == ApplyAll(before, Payloads(procs[p].batch))
              IN  /\ procs[p].command.type = "ChangeMailingAddress" =>
                        after = [before EXCEPT
                                    !.mailing_address = procs[p].command.new_address]
                  /\ procs[p].command.type = "ChangeEmail" =>
                        after = [before EXCEPT !.email = procs[p].command.new_email]
                  /\ after.balance = before.balance
                  /\ after = Replay(events[procs[p].id])
        /\ (/\ procs[p].pc = "view_save"
            /\ procs[p].batch[1].payload.type \notin TransactionalEvents) =>
              LET view == procs[p].view
                  updated == UpdateAll(view, procs[p].batch)
              IN  /\ updated.balance = view.balance
                  /\ updated.ledger = view.ledger
                  /\ updated.written_checks = view.written_checks
                  /\ procs[p].batch[1].payload.type # "AccountOpened" =>
                        updated = view

\* the email of account 1 is changed while its balance is 1 and its view
\* holds one ledger entry
C39_Witness ==
    \E p \in Procs :
        /\ procs[p].pc = "view_save"
        /\ procs[p].command = ChangeEmail(Email1)
        /\ procs[p].aggregate.balance = 1
        /\ Replay(events[1]).balance = 1
        /\ Replay(events[1]).email = Email1
        /\ Len(procs[p].view.ledger) = 1
        /\ UpdateAll(procs[p].view, procs[p].batch) = procs[p].view

C37_ClosedIsNeverReached ==
    /\ \A id \in AccountIds : \A k \in 0..Len(events[id]) :
          Replay(Prefix(events[id], k)).tag \in {"Quiescent", "Active"}
    /\ \A p \in Procs : procs[p].aggregate.tag \in {"Quiescent", "Active"}
    /\ \A c \in 1..MaxCmds :
          results[c].outcome.kind = "User" =>
              results[c].outcome.source # ClosedHandle(NoCommand).error

\* every command of the bound was executed on account 1: it was opened, took
\* a deposit and a withdrawal of its whole balance, and rejected a command;
\* it is Active with balance 0
C37_Witness ==
    /\ nextCorr = MaxCmds + 1
    /\ \A p \in Procs : procs[p].pc = "idle"
    /\ Len(events[1]) = 3
    /\ events[1][3].payload.type \in {"CashWithdrawal", "CheckWithdrawal"}
    /\ \E c \in 1..MaxCmds : results[c].outcome.kind = "User" /\ results[c].id = 1
    /\ Replay(events[1]).tag = "Active"
    /\ Replay(events[1]).balance = 0

\* C32: a health route answers 200 exactly when the query on the event store
\* and the query on the view store both succeed; when one of them fails the
\* system health is Down and the status is 503. The health route reports the
\* system health in its body.
C32_HealthIsUpIffBothStoresAnswer ==
    fn.phase = "health" =>
        LET both == fn.agg_status /\ fn.view_status
            system_health == CheckHealth(fn.agg_status, fn.view_status).system_health
        IN  /\ fn.response.status = 200 <=> both
            /\ system_health = "Up" <=> both
            /\ ~both => (system_health = "Down" /\ fn.response.status = 503)
            /\ fn.route = "health" =>
                  fn.response.body = <<[status |-> IF both THEN "Up" ELSE "Down"]>>

\* the health route is called while the event store answers and the view
\* store does not
C32_Witness ==
    /\ fn.phase = "health"
    /\ fn.route = "health"
    /\ fn.agg_status /\ ~fn.view_status
    /\ fn.response = [status |-> 503, body |-> <<[status |-> "Down"]>>]

\* C31: the balance listing answers 200 with the views of the rows whose
\* payload can be read, each once and no other, in descending order of
\* balance; the rows that cannot be read are left out.
C31_ListingIsSortedDescending ==
    fn.phase = "listed" =>
        LET body == fn.response.body
            readable == {i \in 1..Len(fn.rows) : fn.rows[i].readable}
        IN  /\ fn.response.status = 200
            /\ Len(body) = Cardinality(readable)
            /\ {body[i] : i \in 1..Len(body)} = {fn.rows[i].view : i \in readable}
            /\ \A i \in 1..(Len(body) - 1) : body[i].balance >= body[i + 1].balance

\* three rows: balance 0, a payload that cannot be read, balance 2
C31_Witness ==
    /\ fn.phase = "listed"
    /\ Len(fn.rows) = 3
    /\ fn.rows[1].readable /\ fn.rows[1].view.balance = 0
    /\ ~fn.rows[2].readable
    /\ fn.rows[3].readable /\ fn.rows[3].view.balance = 2
    /\ fn.response.status = 200
    /\ fn.response.body = <<fn.rows[3].view, fn.rows[1].view>>

\* the execution with correlation id c has been started and has not answered
Running(c) == \E p \in Procs : procs[p].pc # "idle" /\ procs[p].corr = c

\* the execution with correlation id c loaded version s of account id
LoadedAt(c, id, s) ==
    \/ /\ Finished(c)
       /\ results[c].id = id
       /\ results[c].current_sequence = s
    \/ \E p \in Procs :
          /\ procs[p].pc # "idle"
          /\ procs[p].corr = c
          /\ procs[p].id = id
          /\ procs[p].current_sequence = s

\* the outcome of c is one of the four, and it says what the store holds:
\* committed events for Ok, none for the other three
OneOutcome(c) ==
    Finished(c) =>
        /\ results[c].outcome.kind \in
              {"Ok", "User", "AggregateConflict", "DatabaseConnection"}
        /\ results[c].outcome.kind = "Ok" <=> c \in Committed(results[c].id)
        /\ ~Running(c)

\* an execution that lost the race for version s lost it to another
\* execution that loaded the same version and committed
LostToAWinner(c) ==
    results[c].outcome.kind = "AggregateConflict" =>
        LET id == results[c].id
            s == results[c].current_sequence
        IN  /\ Len(events[id]) > s
            /\ SlotHolder(id, s) # c
            /\ LoadedAt(SlotHolder(id, s), id, s)
            /\ Finished(SlotHolder(id, s)) =>
                  results[SlotHolder(id, s)].outcome.kind = "Ok"

\* C40: on stores that answer, every execution that was started ends, with
\* one outcome that never changes afterwards: committed, rejected by handle,
\* conflict or store failure. An execution ends in a conflict only when
\* another execution that loaded the same version of the account committed,
\* so the executions racing on one version never all lose to one another.
C40_EveryExecutionCompletes ==
    /\ \A c \in 1..MaxCmds : (nextCorr > c) ~> Finished(c)
    /\ [](\A c \in 1..MaxCmds : OneOutcome(c) /\ LostToAWinner(c))
    /\ [][\A c \in 1..MaxCmds : Finished(c) => results'[c] = results[c]]_vars

\* two executions loaded the same version of the account and both passed
\* handle; one committed and answered Ok, the other answered with the conflict
C40_Witness ==
    \E c, d \in 1..MaxCmds :
        /\ c # d
        /\ results[c].outcome.kind = "AggregateConflict"
        /\ results[d].outcome.kind = "Ok"
        /\ results[c].id = results[d].id
        /\ results[c].current_sequence = results[d].current_sequence
        /\ results[c].current_sequence > 0
        /\ SlotHolder(results[c].id, results[c].current_sequence) = d

====
